---- MODULE Spec2Model ----
(***************************************************************************)
(* State-machine model of the strategic-engine simulation core.            *)
(*                                                                         *)
(* Two engine variants exist in the repository and both are modelled:      *)
(*   "1D"  src/engine/engine.py          scalar positions, fixed-stat units *)
(*   "2D"  src/backend/engine/engine.py  2D positions, typed-unit catalog   *)
(* Around the engine, src/backend/runtime/eventlog.py (EventLog) and        *)
(* src/runtime/runner.py (TickRunner, an asyncio task driving one engine)  *)
(* are modelled; the coroutines of the runner are cut at their statements  *)
(* and scheduled as asyncio schedules them: a task keeps the processor     *)
(* until it reaches an await that suspends it.                             *)
(*                                                                         *)
(* Numbers.  The code computes with Python floats; the model uses scaled   *)
(* integers:                                                               *)
(*   distances and positions   1 unit = 0.05 m        (M(m) = 20 * m)      *)
(*   hit points and damage     1 unit = 0.1 hp        (HP(h) = 10 * h)     *)
(*   probabilities             permille                                    *)
(*   visibility multipliers    tenths                                      *)
(*   time                      integer milliseconds, as in the code        *)
(* math.sqrt and the float divisions are rounded to that resolution.       *)
(***************************************************************************)
EXTENDS Integers, Sequences, FiniteSets, TLC

VARIABLES
    variant,          \* "1D" or "2D": which engine module the instances run
    state,            \* state[e]: Engine.state of instance e (ts_ms, units, key order)
    _pending_orders,  \* _pending_orders[e]: Engine._pending_orders
    _rng,             \* _rng[e]: generator state of Engine._rng
    evts,             \* evts[e]: what the last call on instance e returned (<<>> for None)
    targets,          \* targets[e]: the shooter -> target dict of the last step
    call,             \* the last call made on an instance: [op, arg]
    nsteps,           \* nsteps[e]: number of step() calls made on instance e
    norders,          \* norders[e]: number of orders submitted to instance e
    processed,        \* processed[e]: the buffer the last step() of instance e consumed
    turn,             \* the instance the driver calls next
    _log,             \* EventLog._log
    client,           \* a user of the log: last return value, polling offset, events received
    runner,           \* the attributes of the TickRunner (None when there is no runner)
    loops,            \* loops[t]: the t-th task created for TickRunner._loop
    callers,          \* callers[c]: the task calling the runner's methods, and where it is
    trace             \* history of the runner: what was enqueued, handed over, returned

evars == <<variant, state, _pending_orders, _rng, evts, targets, nsteps,
          norders, processed, turn>>
rvars == <<_log, client, runner, loops, callers, trace>>
vars == <<evars, call, rvars>>

(***************************************************************************)
(* Bounds of the model.                                                    *)
(***************************************************************************)
MaxSteps == 2       \* step() calls per engine instance
MaxOrders == 3      \* orders submitted to an engine instance

(***************************************************************************)
(* Scalars and helpers.                                                    *)
(***************************************************************************)
None == <<>>          \* Python None of an Optional position (Some(p) is p itself)
NoId == "None"        \* Python None of an Optional[str]

M(m) == 20 * m        \* metres to model distance units
HP(h) == 10 * h       \* hit points to model hp units

Min(a, b) == IF a <= b THEN a ELSE b
Max(a, b) == IF a >= b THEN a ELSE b
Abs(a) == IF a >= 0 THEN a ELSE -a
RoundDiv(a, b) == (2 * a + b) \div (2 * b)   \* a / b to the nearest unit, b > 0

RECURSIVE SqrtBetween(_, _, _)
SqrtBetween(n, lo, hi) ==
    IF lo >= hi THEN lo
    ELSE LET mid == (lo + hi + 1) \div 2
         IN IF mid * mid <= n THEN SqrtBetween(n, mid, hi)
                              ELSE SqrtBetween(n, lo, mid - 1)
ISqrt(n) == SqrtBetween(n, 0, 46340)         \* math.sqrt, rounded down

(***************************************************************************)
(* DRNG: a seeded generator whose every draw advances its state.  The      *)
(* PCG64 stream is modelled by a full-period 4-bit linear congruential     *)
(* generator; a draw is the new state, in sixteenths of [0, 1).            *)
(***************************************************************************)
DRNG(seed) == seed % 16
random(g) == (5 * g + 3) % 16
bernoulli(g, p) == [val |-> random(g) * 1000 < p * 16, g |-> random(g)]
uniform(g, a, b) == [val |-> a + ((b - a) * random(g)) \div 16, g |-> random(g)]

(***************************************************************************)
(* base_acc * exp(-dist / decay_m), clamped to [0, 0.95], in permille.     *)
(* exp is tabulated in steps of 1/8 of the decay length.                   *)
(***************************************************************************)
ExpTable == <<1000, 882, 779, 687, 607, 535, 472, 417>>
RECURSIVE exp_neg(_)
exp_neg(k) == IF k < 8 THEN ExpTable[k + 1] ELSE (368 * exp_neg(k - 8)) \div 1000
hit_probability(base_acc, dist, decay_m) ==
    Max(0, Min(950, (base_acc * exp_neg((8 * dist) \div decay_m)) \div 1000))

(***************************************************************************)
(* An engine instance `self` is the record                                 *)
(*   [state, _rng, _pending_orders, evts, targets]                         *)
(* of its three attributes and the two locals of step(): the event list    *)
(* being built and the shooter -> target dict (a sequence of items, in key *)
(* order).  state is [ts_ms, units, ids, battle_id], ids being the key     *)
(* order of the units dict.  Every method maps self to self.               *)
(***************************************************************************)
Event(kind, ts_ms, data) == [kind |-> kind, ts_ms |-> ts_ms, data |-> data]
Emit(self, kind, data) ==
    [self EXCEPT !.evts = Append(@, Event(kind, self.state.ts_ms, data))]
Truthy(s) == s # NoId /\ s # ""

\* Engine.apply_orders (both variants): extend the pending buffer.
apply_orders(self, orders) == [self EXCEPT !._pending_orders = @ \o orders]

(***************************************************************************)
(*                      The 1D engine, src/engine/engine.py                *)
(***************************************************************************)
base_acc1D == 600       \* 0.6
decay_m1D == 12000      \* 600.0 m
dmg_min == 80           \* 8.0 hp
dmg_max == 150          \* 15.0 hp

Unit1D(id, side, pos_m, speed_mps, hp, ammo, sensor_range_m) ==
    [id |-> id, side |-> side, pos_m |-> M(pos_m), speed_mps |-> M(speed_mps),
     hp |-> HP(hp), ammo |-> ammo, sensor_range_m |-> M(sensor_range_m),
     target_id |-> NoId, intent_target_pos_m |-> None, routed |-> FALSE]

Order1D(kind, unit_id, target_pos_m, target_unit_id) ==
    [kind |-> kind, unit_id |-> unit_id, target_pos_m |-> target_pos_m,
     target_unit_id |-> target_unit_id, client_ts_ms |-> 0]

\* _apply_orders_now without the test of u.routed.
apply_order1D_routed_obeys(self, o) ==
    IF o.unit_id \notin DOMAIN self.state.units THEN self
    ELSE IF o.kind = "move" /\ o.target_pos_m # None THEN
        Emit([self EXCEPT !.state.units[o.unit_id].intent_target_pos_m = o.target_pos_m],
             "OrderAccepted",
             [unit_id |-> self.state.units[o.unit_id].id, kind |-> "move",
              to |-> o.target_pos_m[1]])
    ELSE IF o.kind = "attack" /\ Truthy(o.target_unit_id) THEN
        Emit([self EXCEPT !.state.units[o.unit_id].target_id = o.target_unit_id],
             "OrderAccepted",
             [unit_id |-> self.state.units[o.unit_id].id, kind |-> "attack",
              target |-> o.target_unit_id])
    ELSE IF o.kind = "defend" THEN
        Emit([self EXCEPT !.state.units[o.unit_id].intent_target_pos_m = None,
                          !.state.units[o.unit_id].target_id = NoId],
             "OrderAccepted",
             [unit_id |-> self.state.units[o.unit_id].id, kind |-> "defend"])
    ELSE self

\* One iteration of the loop of _apply_orders_now.
apply_order1D(self, o) ==
    IF o.unit_id \notin DOMAIN self.state.units THEN self
    ELSE IF self.state.units[o.unit_id].routed THEN self
    ELSE IF o.kind = "move" /\ o.target_pos_m # None THEN
        Emit([self EXCEPT !.state.units[o.unit_id].intent_target_pos_m = o.target_pos_m],
             "OrderAccepted",
             [unit_id |-> self.state.units[o.unit_id].id, kind |-> "move",
              to |-> o.target_pos_m[1]])
    ELSE IF o.kind = "attack" /\ Truthy(o.target_unit_id) THEN
        Emit([self EXCEPT !.state.units[o.unit_id].target_id = o.target_unit_id],
             "OrderAccepted",
             [unit_id |-> self.state.units[o.unit_id].id, kind |-> "attack",
              target |-> o.target_unit_id])
    ELSE IF o.kind = "defend" THEN
        Emit([self EXCEPT !.state.units[o.unit_id].intent_target_pos_m = None,
                          !.state.units[o.unit_id].target_id = NoId],
             "OrderAccepted",
             [unit_id |-> self.state.units[o.unit_id].id, kind |-> "defend"])
    ELSE self

RECURSIVE apply_each1D(_, _)
apply_each1D(self, pend) ==
    IF pend = <<>> THEN self
    ELSE apply_each1D(apply_order1D(self, Head(pend)), Tail(pend))

\* _apply_orders_now without the clear() of the buffer.
_apply_orders_now1D_keeps_buffer(self) ==
    apply_each1D(self, self._pending_orders)

\* Engine._apply_orders_now: process the buffer in order, then clear it.
_apply_orders_now1D(self) ==
    [apply_each1D(self, self._pending_orders) EXCEPT !._pending_orders = <<>>]

\* _move without the test of u.routed.
move_unit1D_routed_moves(self, id, dt_ms) ==
    LET u == self.state.units[id] IN
    IF u.intent_target_pos_m = None THEN self
    ELSE LET tgt == u.intent_target_pos_m[1]
             direction == IF tgt > u.pos_m THEN 1 ELSE -1
             max_step == (u.speed_mps * dt_ms) \div 1000
             dist == Abs(tgt - u.pos_m)
             stp == Min(max_step, dist)
             new == u.pos_m + direction * stp
         IN IF new # u.pos_m
            THEN Emit([self EXCEPT !.state.units[id].pos_m = new],
                      "UnitMoved", [unit_id |-> u.id, pos_m |-> new])
            ELSE self

\* One iteration of the loop of _move.
move_unit1D(self, id, dt_ms) ==
    LET u == self.state.units[id] IN
    IF u.intent_target_pos_m = None \/ u.routed THEN self
    ELSE LET tgt == u.intent_target_pos_m[1]
             direction == IF tgt > u.pos_m THEN 1 ELSE -1
             max_step == (u.speed_mps * dt_ms) \div 1000
             dist == Abs(tgt - u.pos_m)
             stp == Min(max_step, dist)
             new == u.pos_m + direction * stp
         IN IF new # u.pos_m
            THEN Emit([self EXCEPT !.state.units[id].pos_m = new],
                      "UnitMoved", [unit_id |-> u.id, pos_m |-> new])
            ELSE self

RECURSIVE move_each1D(_, _, _)
move_each1D(self, ids, dt_ms) ==
    IF ids = <<>> THEN self
    ELSE move_each1D(move_unit1D(self, Head(ids), dt_ms), Tail(ids), dt_ms)

\* Engine._move
_move1D(self, dt_ms) == move_each1D(self, self.state.ids, dt_ms)

\* _detect_pairs without the test of the sides.
closer_contact1D_any_side(units, a_id, b_id, best) ==
    /\ a_id # b_id
    /\ Abs(units[a_id].pos_m - units[b_id].pos_m) <= units[a_id].sensor_range_m
    /\ \/ best = NoId
       \/ Abs(units[a_id].pos_m - units[b_id].pos_m)
              < Abs(units[a_id].pos_m - units[best].pos_m)

\* Whether b_id replaces the best contact found so far for a_id.
closer_contact1D(units, a_id, b_id, best) ==
    /\ a_id # b_id
    /\ units[a_id].side # units[b_id].side
    /\ Abs(units[a_id].pos_m - units[b_id].pos_m) <= units[a_id].sensor_range_m
    /\ \/ best = NoId
       \/ Abs(units[a_id].pos_m - units[b_id].pos_m)
              < Abs(units[a_id].pos_m - units[best].pos_m)

\* The inner loop of _detect_pairs: the nearest opposing unit within a's
\* sensor range, the first one on a tie; NoId when there is none.
RECURSIVE best_contact1D(_, _, _, _)
best_contact1D(units, a_id, bs, best) ==
    IF bs = <<>> THEN best
    ELSE best_contact1D(units, a_id, Tail(bs),
             IF closer_contact1D(units, a_id, Head(bs), best) THEN Head(bs) ELSE best)

contact_item1D(units, ids, a_id) ==
    IF best_contact1D(units, a_id, ids, NoId) # NoId
    THEN <<(<<a_id, best_contact1D(units, a_id, ids, NoId)>>)>>
    ELSE <<>>

RECURSIVE detect_from1D(_, _, _, _)
detect_from1D(units, ids, as, pairs) ==
    IF as = <<>> THEN pairs
    ELSE detect_from1D(units, ids, Tail(as), pairs \o contact_item1D(units, ids, Head(as)))

\* Engine._detect_pairs
_detect_pairs1D(self) ==
    [self EXCEPT !.targets = detect_from1D(self.state.units, self.state.ids,
                                           self.state.ids, <<>>)]

\* The loop of step() that emits one Contact event per detected pair.
RECURSIVE contact_events1D(_, _)
contact_events1D(self, contacts) ==
    IF contacts = <<>> THEN self
    ELSE contact_events1D(
             Emit(self, "Contact",
                  [unit_id |-> Head(contacts)[1], target_id |-> Head(contacts)[2]]),
             Tail(contacts))

\* The part of a shot after the Bernoulli draw came out a hit.
damage1D(self, target_id, dmg) ==
    LET hp == self.state.units[target_id].hp - dmg.val
        hurt == Emit([self EXCEPT !.state.units[target_id].hp = hp, !._rng = dmg.g],
                     "Damage",
                     [target |-> self.state.units[target_id].id,
                      dmg |-> dmg.val, hp |-> hp])
    IN IF hp <= 0
       THEN Emit(hurt, "Destroyed", [unit_id |-> self.state.units[target_id].id])
       ELSE hurt

\* _combat without the test of s.ammo.
shot1D_no_ammo_check(self, shooter_id, target_id) ==
    LET s == self.state.units[shooter_id]
        t == self.state.units[target_id]
        dist == Abs(s.pos_m - t.pos_m)
        p == hit_probability(base_acc1D, dist, decay_m1D)
        hit == bernoulli(self._rng, p)
        fired == Emit([self EXCEPT !.state.units[shooter_id].ammo = @ - 1,
                                   !._rng = hit.g],
                      "ShotFired",
                      [shooter |-> s.id, target |-> t.id, dist_m |-> dist, p |-> p])
    IN IF s.routed THEN self
       ELSE IF hit.val
            THEN damage1D(fired, target_id, uniform(hit.g, dmg_min, dmg_max))
            ELSE fired

\* One iteration of the loop of _combat.
shot1D(self, shooter_id, target_id) ==
    LET s == self.state.units[shooter_id]
        t == self.state.units[target_id]
        dist == Abs(s.pos_m - t.pos_m)
        p == hit_probability(base_acc1D, dist, decay_m1D)
        hit == bernoulli(self._rng, p)
        fired == Emit([self EXCEPT !.state.units[shooter_id].ammo = @ - 1,
                                   !._rng = hit.g],
                      "ShotFired",
                      [shooter |-> s.id, target |-> t.id, dist_m |-> dist, p |-> p])
    IN IF s.ammo <= 0 \/ s.routed THEN self
       ELSE IF hit.val
            THEN damage1D(fired, target_id, uniform(hit.g, dmg_min, dmg_max))
            ELSE fired

RECURSIVE combat_each1D(_, _)
combat_each1D(self, contacts) ==
    IF contacts = <<>> THEN self
    ELSE combat_each1D(shot1D(self, Head(contacts)[1], Head(contacts)[2]),
                       Tail(contacts))

\* Engine._combat
_combat1D(self) == combat_each1D(self, self.targets)

\* One iteration of the loop of _morale; max hp is the literal 100.0.
morale_unit1D(self, id) ==
    LET u == self.state.units[id]
        b == bernoulli(self._rng, 500)
    IN IF u.routed THEN self
       ELSE IF ~(10 * Max(0, u.hp) < 3 * HP(100)) THEN self
       ELSE IF b.val
            THEN Emit([self EXCEPT !.state.units[id].routed = TRUE, !._rng = b.g],
                      "Routed", [unit_id |-> u.id])
            ELSE [self EXCEPT !._rng = b.g]

RECURSIVE morale_each1D(_, _)
morale_each1D(self, ids) ==
    IF ids = <<>> THEN self
    ELSE morale_each1D(morale_unit1D(self, Head(ids)), Tail(ids))

\* Engine._morale
_morale1D(self) == morale_each1D(self, self.state.ids)

\* The detection lines of step(): contacts, then their Contact events.
contacts1D(self) == contact_events1D(self, self.targets)

\* A clock that advances by one fixed tick whatever dt_ms is.
advance_fixed_tick(self, dt_ms) == [self EXCEPT !.state.ts_ms = @ + 500]

\* The last statement of step().
advance(self, dt_ms) == [self EXCEPT !.state.ts_ms = @ + dt_ms]

\* step() with the morale phase ahead of the combat phase.
step1D_morale_first(self, dt_ms) ==
    advance(
        _combat1D(
            contacts1D(
                _detect_pairs1D(
                    _morale1D(
                        _move1D(
                            _apply_orders_now1D([self EXCEPT !.evts = <<>>]),
                            dt_ms))))),
        dt_ms)

\* step() with the movement phase ahead of the order phase.
step1D_move_first(self, dt_ms) ==
    advance(
        _morale1D(
            _combat1D(
                contacts1D(
                    _detect_pairs1D(
                        _apply_orders_now1D(
                            _move1D([self EXCEPT !.evts = <<>>], dt_ms)))))),
        dt_ms)

\* Engine.step of the 1D engine.
step1D(self, dt_ms) ==
    advance(
        _morale1D(
            _combat1D(
                contacts1D(
                    _detect_pairs1D(
                        _move1D(
                            _apply_orders_now1D([self EXCEPT !.evts = <<>>]),
                            dt_ms))))),
        dt_ms)

(***************************************************************************)
(*              The typed-unit engine, src/backend/engine/engine.py        *)
(***************************************************************************)
base_acc == 700         \* 0.7
decay_m == 16000        \* 800.0 m

\* The unit-type catalog of src/backend/engine/model.py, in model units:
\* speed in distance units per second, reload_time_s in milliseconds,
\* visibility in tenths.
UNIT_TYPES ==
    [RECON |->
        [unit_class |-> "recon", max_hp |-> HP(50), speed_mps |-> M(4),
         sensor_range_m |-> M(2500), weapon_type |-> "small_arms",
         weapon_range_m |-> M(400), damage |-> HP(5), reload_time_s |-> 2000,
         armor |-> 1, visibility |-> 5, max_ammo |-> 200],
     INFANTRY |->
        [unit_class |-> "infantry", max_hp |-> HP(80), speed_mps |-> 30,
         sensor_range_m |-> M(600), weapon_type |-> "anti_tank",
         weapon_range_m |-> M(500), damage |-> HP(30), reload_time_s |-> 5000,
         armor |-> 0, visibility |-> 8, max_ammo |-> 10],
     MBT |->
        [unit_class |-> "mbt", max_hp |-> HP(150), speed_mps |-> M(2),
         sensor_range_m |-> M(1000), weapon_type |-> "direct_fire",
         weapon_range_m |-> M(3000), damage |-> HP(50), reload_time_s |-> 6000,
         armor |-> 3, visibility |-> 15, max_ammo |-> 40],
     ARTILLERY |->
        [unit_class |-> "artillery", max_hp |-> HP(60), speed_mps |-> 30,
         sensor_range_m |-> M(500), weapon_type |-> "indirect_fire",
         weapon_range_m |-> M(15000), damage |-> HP(60), reload_time_s |-> 15000,
         armor |-> 1, visibility |-> 12, max_ammo |-> 30]]

get_type(u) == UNIT_TYPES[u.unit_type_id]

Pos(x, y) == <<M(x), M(y)>>

Unit(id, side, unit_type_id, pos, hp, ammo) ==
    [id |-> id, side |-> side, unit_type_id |-> unit_type_id, pos |-> pos,
     hp |-> HP(hp), ammo |-> ammo, target_id |-> NoId, intent_target_pos |-> None,
     routed |-> FALSE, last_fire_time |-> 0, spotted_by |-> {}]

Order(kind, unit_id, target_pos, target_unit_id) ==
    [kind |-> kind, unit_id |-> unit_id, target_pos |-> target_pos,
     target_unit_id |-> target_unit_id, client_ts_ms |-> 0]

distance_2d(pos1, pos2) ==
    ISqrt((pos2[1] - pos1[1]) * (pos2[1] - pos1[1])
          + (pos2[2] - pos1[2]) * (pos2[2] - pos1[2]))

\* One iteration of the loop of _apply_orders_now.
apply_order(self, o) ==
    IF o.unit_id \notin DOMAIN self.state.units THEN self
    ELSE IF self.state.units[o.unit_id].routed THEN self
    ELSE IF o.kind = "move" /\ o.target_pos # None THEN
        Emit([self EXCEPT !.state.units[o.unit_id].intent_target_pos = o.target_pos],
             "OrderAccepted",
             [unit_id |-> self.state.units[o.unit_id].id, kind |-> "move",
              to |-> o.target_pos])
    ELSE IF o.kind = "attack" /\ Truthy(o.target_unit_id) THEN
        Emit([self EXCEPT !.state.units[o.unit_id].target_id = o.target_unit_id],
             "OrderAccepted",
             [unit_id |-> self.state.units[o.unit_id].id, kind |-> "attack",
              target |-> o.target_unit_id])
    ELSE IF o.kind = "defend" THEN
        Emit([self EXCEPT !.state.units[o.unit_id].intent_target_pos = None,
                          !.state.units[o.unit_id].target_id = NoId],
             "OrderAccepted",
             [unit_id |-> self.state.units[o.unit_id].id, kind |-> "defend"])
    ELSE self

RECURSIVE apply_each(_, _)
apply_each(self, pend) ==
    IF pend = <<>> THEN self
    ELSE apply_each(apply_order(self, Head(pend)), Tail(pend))

\* _apply_orders_now walking the buffer from its end.
_apply_orders_now_reversed(self) ==
    [apply_each(self, [i \in 1..Len(self._pending_orders) |->
                          self._pending_orders[Len(self._pending_orders) + 1 - i]])
        EXCEPT !._pending_orders = <<>>]

\* Engine._apply_orders_now: process the buffer in order, then clear it.
_apply_orders_now(self) ==
    [apply_each(self, self._pending_orders) EXCEPT !._pending_orders = <<>>]

\* _move with step = max_step, not min(max_step, dist).
move_unit_no_clamp(u, dt_ms) ==
    IF u.intent_target_pos = None \/ u.routed THEN u
    ELSE LET dx == u.intent_target_pos[1] - u.pos[1]
             dy == u.intent_target_pos[2] - u.pos[2]
             dist == ISqrt(dx * dx + dy * dy)
             max_step == (get_type(u).speed_mps * dt_ms) \div 1000
         IN IF dist < 2 THEN u
            ELSE [u EXCEPT !.pos = <<u.pos[1] + RoundDiv(dx * max_step, dist),
                                     u.pos[2] + RoundDiv(dy * max_step, dist)>>]

\* One iteration of the loop of _move; 0.1 m is 2 distance units.
move_unit(u, dt_ms) ==
    IF u.intent_target_pos = None \/ u.routed THEN u
    ELSE LET dx == u.intent_target_pos[1] - u.pos[1]
             dy == u.intent_target_pos[2] - u.pos[2]
             dist == ISqrt(dx * dx + dy * dy)
             max_step == (get_type(u).speed_mps * dt_ms) \div 1000
             stp == Min(max_step, dist)
         IN IF dist < 2 THEN u
            ELSE [u EXCEPT !.pos = <<u.pos[1] + RoundDiv(dx * stp, dist),
                                     u.pos[2] + RoundDiv(dy * stp, dist)>>]

RECURSIVE move_each(_, _, _)
move_each(self, ids, dt_ms) ==
    IF ids = <<>> THEN self
    ELSE move_each([self EXCEPT !.state.units[Head(ids)] = move_unit(@, dt_ms)],
                   Tail(ids), dt_ms)

\* Engine._move: no event is emitted.
_move(self, dt_ms) == move_each(self, self.state.ids, dt_ms)

_can_detect(detector, target) ==
    10 * distance_2d(detector.pos, target.pos)
        <= get_type(detector).sensor_range_m * get_type(target).visibility

\* _update_spotting without the loop that clears every spotted_by.
spotters_keep_stale(units, t_id) ==
    units[t_id].spotted_by
    \cup {d \in DOMAIN units :
            /\ ~units[d].routed
            /\ units[d].side # units[t_id].side
            /\ _can_detect(units[d], units[t_id])}

\* The detectors of the second loop of _update_spotting that add their id
\* to target t_id's spotted_by.
spotters(units, t_id) ==
    {d \in DOMAIN units :
        /\ ~units[d].routed
        /\ units[d].side # units[t_id].side
        /\ _can_detect(units[d], units[t_id])}

RECURSIVE spot_each(_, _, _)
spot_each(self, units, ids) ==
    IF ids = <<>> THEN self
    ELSE spot_each([self EXCEPT !.state.units[Head(ids)].spotted_by =
                                    spotters(units, Head(ids))],
                   units, Tail(ids))

\* Engine._update_spotting: clear every spotted_by, then recompute it from
\* the positions, sides and routed flags (which the loops do not change).
_update_spotting(self) == spot_each(self, self.state.units, self.state.ids)

\* _can_fire_at without the reload test.
_can_fire_at_no_reload(attacker, target, current_time) ==
    IF attacker.ammo <= 0 THEN FALSE
    ELSE IF distance_2d(attacker.pos, target.pos) > get_type(attacker).weapon_range_m
    THEN FALSE
    ELSE IF get_type(attacker).weapon_type \in {"direct_fire", "small_arms", "anti_tank"}
    THEN _can_detect(attacker, target)
    ELSE IF get_type(attacker).weapon_type = "indirect_fire"
    THEN Cardinality(target.spotted_by) > 0
    ELSE FALSE

_can_fire_at(attacker, target, current_time) ==
    IF current_time - attacker.last_fire_time < get_type(attacker).reload_time_s
    THEN FALSE
    ELSE IF attacker.ammo <= 0 THEN FALSE
    ELSE IF distance_2d(attacker.pos, target.pos) > get_type(attacker).weapon_range_m
    THEN FALSE
    ELSE IF get_type(attacker).weapon_type \in {"direct_fire", "small_arms", "anti_tank"}
    THEN _can_detect(attacker, target)
    ELSE IF get_type(attacker).weapon_type = "indirect_fire"
    THEN Cardinality(target.spotted_by) > 0
    ELSE FALSE

\* _calculate_damage with the anti-tank multiplier applied to every armor.
damage_for_anti_tank_flat(weapon, armor, base_damage) ==
    IF weapon = "small_arms" /\ armor >= 2 THEN (base_damage * 1) \div 10
    ELSE IF weapon = "anti_tank" THEN (base_damage * 15) \div 10
    ELSE IF weapon = "direct_fire"
         THEN IF armor >= 3 THEN (base_damage * 8) \div 10
              ELSE IF armor >= 2 THEN (base_damage * 12) \div 10
              ELSE (base_damage * 15) \div 10
    ELSE IF weapon = "indirect_fire"
         THEN IF armor = 0 THEN (base_damage * 20) \div 10
              ELSE IF armor = 1 THEN (base_damage * 12) \div 10
              ELSE (base_damage * 6) \div 10
    ELSE base_damage

\* The branches of _calculate_damage, on the attacker's weapon type and the
\* target's armor.
damage_for(weapon, armor, base_damage) ==
    IF weapon = "small_arms" /\ armor >= 2 THEN (base_damage * 1) \div 10
    ELSE IF weapon = "anti_tank"
         THEN IF armor >= 2 THEN (base_damage * 15) \div 10 ELSE base_damage
    ELSE IF weapon = "direct_fire"
         THEN IF armor >= 3 THEN (base_damage * 8) \div 10
              ELSE IF armor >= 2 THEN (base_damage * 12) \div 10
              ELSE (base_damage * 15) \div 10
    ELSE IF weapon = "indirect_fire"
         THEN IF armor = 0 THEN (base_damage * 20) \div 10
              ELSE IF armor = 1 THEN (base_damage * 12) \div 10
              ELSE (base_damage * 6) \div 10
    ELSE base_damage

_calculate_damage(attacker, target, base_damage) ==
    damage_for(get_type(attacker).weapon_type, get_type(target).armor, base_damage)

\* A comparison that lets a later unit win a tie.
closer_target_or_equal(units, u_id, t_id, ts, best) ==
    /\ units[u_id].side # units[t_id].side
    /\ units[t_id].hp > 0
    /\ _can_fire_at(units[u_id], units[t_id], ts)
    /\ \/ best = NoId
       \/ distance_2d(units[u_id].pos, units[t_id].pos)
              <= distance_2d(units[u_id].pos, units[best].pos)

\* Whether t_id replaces the best target found so far for u_id.
closer_target(units, u_id, t_id, ts, best) ==
    /\ units[u_id].side # units[t_id].side
    /\ units[t_id].hp > 0
    /\ _can_fire_at(units[u_id], units[t_id], ts)
    /\ \/ best = NoId
       \/ distance_2d(units[u_id].pos, units[t_id].pos)
              < distance_2d(units[u_id].pos, units[best].pos)

\* The inner loop of _find_targets: the closest unit u can fire at, the
\* first one on a tie; NoId when there is none.
RECURSIVE best_target(_, _, _, _, _)
best_target(units, u_id, ts, t_ids, best) ==
    IF t_ids = <<>> THEN best
    ELSE best_target(units, u_id, ts, Tail(t_ids),
             IF closer_target(units, u_id, Head(t_ids), ts, best)
             THEN Head(t_ids) ELSE best)

\* _find_targets giving precedence to the target of the unit's attack order.
target_item_prefers_order(units, ids, ts, u_id) ==
    IF units[u_id].routed THEN <<>>
    ELSE IF /\ units[u_id].target_id \in DOMAIN units
            /\ closer_target(units, u_id, units[u_id].target_id, ts, NoId)
    THEN <<(<<u_id, units[u_id].target_id>>)>>
    ELSE IF best_target(units, u_id, ts, ids, NoId) # NoId
    THEN <<(<<u_id, best_target(units, u_id, ts, ids, NoId)>>)>>
    ELSE <<>>

target_item(units, ids, ts, u_id) ==
    IF units[u_id].routed THEN <<>>
    ELSE IF best_target(units, u_id, ts, ids, NoId) # NoId
    THEN <<(<<u_id, best_target(units, u_id, ts, ids, NoId)>>)>>
    ELSE <<>>

RECURSIVE find_from(_, _, _, _, _)
find_from(units, ids, ts, u_ids, tgts) ==
    IF u_ids = <<>> THEN tgts
    ELSE find_from(units, ids, ts, Tail(u_ids),
                   tgts \o target_item(units, ids, ts, Head(u_ids)))

\* Engine._find_targets
_find_targets(self) ==
    [self EXCEPT !.targets = find_from(self.state.units, self.state.ids,
                                       self.state.ts_ms, self.state.ids, <<>>)]

\* The hit branch of _combat with the Damage event built before t.hp is reduced.
damage_reports_old_hp(self, shooter_id, target_id, final_dmg) ==
    LET hp == self.state.units[target_id].hp - final_dmg
        hurt == Emit([self EXCEPT !.state.units[target_id].hp = hp],
                     "Damage",
                     [target |-> self.state.units[target_id].id, dmg |-> final_dmg,
                      hp |-> self.state.units[target_id].hp,
                      shooter |-> self.state.units[shooter_id].id])
    IN IF hp <= 0
       THEN Emit(hurt, "Destroyed",
                 [unit_id |-> self.state.units[target_id].id,
                  killer |-> self.state.units[shooter_id].id])
       ELSE hurt

\* The part of a shot after the Bernoulli draw came out a hit.
damage(self, shooter_id, target_id, final_dmg) ==
    LET hp == self.state.units[target_id].hp - final_dmg
        hurt == Emit([self EXCEPT !.state.units[target_id].hp = hp],
                     "Damage",
                     [target |-> self.state.units[target_id].id, dmg |-> final_dmg,
                      hp |-> hp, shooter |-> self.state.units[shooter_id].id])
    IN IF hp <= 0
       THEN Emit(hurt, "Destroyed",
                 [unit_id |-> self.state.units[target_id].id,
                  killer |-> self.state.units[shooter_id].id])
       ELSE hurt

\* _combat without the test of t.hp.
shot_at_destroyed(self, shooter_id, target_id) ==
    LET s == self.state.units[shooter_id]
        t == self.state.units[target_id]
        dist == distance_2d(s.pos, t.pos)
        p == hit_probability(base_acc, dist, decay_m)
        hit == bernoulli(self._rng, p)
        fired == Emit([self EXCEPT !.state.units[shooter_id].ammo = @ - 1,
                                   !.state.units[shooter_id].last_fire_time =
                                        self.state.ts_ms,
                                   !._rng = hit.g],
                      "ShotFired",
                      [shooter |-> s.id, target |-> t.id, dist_m |-> dist, p |-> p,
                       weapon |-> get_type(s).weapon_type])
    IN IF s.routed THEN self
       ELSE IF hit.val
            THEN damage(fired, shooter_id, target_id,
                        _calculate_damage(s, t, get_type(s).damage))
            ELSE fired

\* One iteration of the loop of _combat.
shot(self, shooter_id, target_id) ==
    LET s == self.state.units[shooter_id]
        t == self.state.units[target_id]
        dist == distance_2d(s.pos, t.pos)
        p == hit_probability(base_acc, dist, decay_m)
        hit == bernoulli(self._rng, p)
        fired == Emit([self EXCEPT !.state.units[shooter_id].ammo = @ - 1,
                                   !.state.units[shooter_id].last_fire_time =
                                        self.state.ts_ms,
                                   !._rng = hit.g],
                      "ShotFired",
                      [shooter |-> s.id, target |-> t.id, dist_m |-> dist, p |-> p,
                       weapon |-> get_type(s).weapon_type])
    IN IF s.routed \/ t.hp <= 0 THEN self
       ELSE IF hit.val
            THEN damage(fired, shooter_id, target_id,
                        _calculate_damage(s, t, get_type(s).damage))
            ELSE fired

RECURSIVE combat_each(_, _)
combat_each(self, tgts) ==
    IF tgts = <<>> THEN self
    ELSE combat_each(shot(self, Head(tgts)[1], Head(tgts)[2]), Tail(tgts))

\* Engine._combat
_combat(self) == combat_each(self, self.targets)

\* _morale without the test of hp_pct.
morale_unit_no_threshold(self, id) ==
    LET u == self.state.units[id]
        b == bernoulli(self._rng, 500)
    IN IF u.routed THEN self
       ELSE IF b.val
            THEN Emit([self EXCEPT !.state.units[id].routed = TRUE, !._rng = b.g],
                      "Routed", [unit_id |-> u.id])
            ELSE [self EXCEPT !._rng = b.g]

\* One iteration of the loop of _morale.
morale_unit(self, id) ==
    LET u == self.state.units[id]
        b == bernoulli(self._rng, 500)
    IN IF u.routed THEN self
       ELSE IF ~(10 * Max(0, u.hp) < 3 * get_type(u).max_hp) THEN self
       ELSE IF b.val
            THEN Emit([self EXCEPT !.state.units[id].routed = TRUE, !._rng = b.g],
                      "Routed", [unit_id |-> u.id])
            ELSE [self EXCEPT !._rng = b.g]

RECURSIVE morale_each(_, _)
morale_each(self, ids) ==
    IF ids = <<>> THEN self
    ELSE morale_each(morale_unit(self, Head(ids)), Tail(ids))

\* Engine._morale
_morale(self) == morale_each(self, self.state.ids)

\* Engine.step of the typed-unit engine.
step2D(self, dt_ms) ==
    advance(
        _morale(
            _combat(
                _find_targets(
                    _update_spotting(
                        _move(
                            _apply_orders_now([self EXCEPT !.evts = <<>>]),
                            dt_ms))))),
        dt_ms)

(***************************************************************************)
(* Initial states.  Engine(seed, initial_state) takes any State; the model *)
(* draws it from the battles below (the one of src/tests, a 1D skirmish    *)
(* and four typed-unit battles) and names each by its battle_id.           *)
(***************************************************************************)
State(ts_ms, units, ids, battle_id) ==
    [ts_ms |-> ts_ms, units |-> units, ids |-> ids, battle_id |-> battle_id]

\* make_test_state of src/tests/test_determinism.py: out of sensor range.
make_test_state ==
    State(0,
          [B1 |-> Unit1D("B1", "BLUE", 1000, 2, 100, 40, 800),
           R1 |-> Unit1D("R1", "RED", 9000, 2, 100, 40, 800)],
          <<"B1", "R1">>, "test")

\* A 1D skirmish within sensor range: B2 stands between B1 and R1, R1 is
\* already weakened and B1 is down to its last round.
skirmish_state ==
    State(0,
          [B1 |-> Unit1D("B1", "BLUE", 1000, 2, 100, 1, 800),
           B2 |-> Unit1D("B2", "BLUE", 1200, 2, 100, 2, 800),
           R1 |-> Unit1D("R1", "RED", 1500, 2, 10, 40, 800)],
          <<"B1", "B2", "R1">>, "skirmish")

\* Typed-unit duel at the edge of the infantry's weapon range, both reloaded.
duel_state ==
    State(6000,
          [B_INF_1 |-> Unit("B_INF_1", "BLUE", "INFANTRY", Pos(0, 0), 80, 2),
           R_MBT_1 |-> Unit("R_MBT_1", "RED", "MBT", Pos(300, 400), 150, 40)],
          <<"B_INF_1", "R_MBT_1">>, "duel")

\* Typed-unit battle with indirect fire: the howitzer cannot see the enemy
\* infantry, the recon vehicle spots it.
battery_state ==
    State(15000,
          [B_ARTY_1 |-> Unit("B_ARTY_1", "BLUE", "ARTILLERY", Pos(0, 0), 60, 30),
           B_RECON_1 |-> Unit("B_RECON_1", "BLUE", "RECON", Pos(1000, 0), 40, 200),
           R_INF_1 |-> Unit("R_INF_1", "RED", "INFANTRY", Pos(1200, 0), 80, 10)],
          <<"B_ARTY_1", "B_RECON_1", "R_INF_1">>, "battery")

\* Typed-unit battle with two shooters on one target: a recon vehicle
\* halfway between two tanks, each of which destroys it with one hit.
crossfire_state ==
    State(6000,
          [B_MBT_1 |-> Unit("B_MBT_1", "BLUE", "MBT", Pos(0, 0), 150, 40),
           B_MBT_2 |-> Unit("B_MBT_2", "BLUE", "MBT", Pos(600, 0), 150, 40),
           R_RECON_1 |-> Unit("R_RECON_1", "RED", "RECON", Pos(300, 0), 50, 200)],
          <<"B_MBT_1", "B_MBT_2", "R_RECON_1">>, "crossfire")

\* Typed-unit battle out of weapon reach: the recon vehicle sees the tank 2 km
\* away (2500 m x 1.5), the tank does not see it (1000 m x 0.5).
overwatch_state ==
    State(6000,
          [B_RECON_1 |-> Unit("B_RECON_1", "BLUE", "RECON", Pos(0, 0), 50, 200),
           R_MBT_1 |-> Unit("R_MBT_1", "RED", "MBT", Pos(2000, 0), 150, 40)],
          <<"B_RECON_1", "R_MBT_1">>, "overwatch")

Battles == [variant : {"1D"}, state : {make_test_state, skirmish_state}]
           \cup [variant : {"2D"},
                 state : {duel_state, battery_state, crossfire_state, overwatch_state}]

\* The seeds a battle is run with: one seed where no draw is ever made.
Seeds(battle_id) ==
    IF battle_id = "test" THEN {42} ELSE IF battle_id = "overwatch" THEN {0} ELSE {0, 1, 2}

\* The orders a client submits in each battle.
OrderPool(battle_id) ==
    CASE battle_id = "test" ->
           {Order1D("move", "B1", <<M(5000)>>, NoId),
            Order1D("attack", "B1", None, "R1"),
            Order1D("attack", "B1", None, NoId),
            Order1D("defend", "B1", None, NoId)}
      [] battle_id = "skirmish" ->
           {Order1D("move", "X1", <<M(5000)>>, NoId),
            Order1D("move", "R1", <<M(1500) + 30>>, NoId),
            Order1D("defend", "B2", None, NoId)}
      [] battle_id = "duel" ->
           {Order("move", "B_INF_1", <<60, 80>>, NoId),
            Order("attack", "B_INF_1", None, "R_MBT_1"),
            Order("defend", "B_INF_1", None, NoId)}
      [] battle_id = "crossfire" ->
           {Order("move", "R_RECON_1", Pos(300, 400), NoId),
            Order("move", "B_MBT_2", Pos(300, 0), NoId),
            Order("attack", "R_RECON_1", None, "B_MBT_2")}
      [] battle_id = "overwatch" ->
           {Order("move", "B_RECON_1", Pos(0, 100), NoId)}
      [] battle_id = "battery" ->
           {Order("move", "X1", Pos(0, 0), NoId),
            Order("move", "B_RECON_1", <<M(1000) + 100, 0>>, NoId),
            Order("move", "B_RECON_1", <<M(1000) + 1, 0>>, NoId)}

DtSet == {500, 2000}

SeqsUpTo(S, n) == UNION {[1..k -> S] : k \in 1..n}

\* Engine.__init__
Engine(seed, initial_state) ==
    [state |-> initial_state, _rng |-> DRNG(seed), _pending_orders |-> <<>>,
     evts |-> <<>>, targets |-> <<>>]

\* The engine is driven directly: no log, no runner.
NoClient == [ret |-> <<>>, cursor |-> 0, received |-> <<>>]
NoRunner ==
    /\ _log = <<>> /\ client = NoClient /\ runner = <<>>
    /\ loops = <<>> /\ callers = <<>> /\ trace = <<>>

InitWith(E) ==
    \E b \in Battles : \E seed \in Seeds(b.state.battle_id) :
        /\ variant = b.variant
        /\ state = [e \in E |-> Engine(seed, b.state).state]
        /\ _rng = [e \in E |-> Engine(seed, b.state)._rng]
        /\ _pending_orders = [e \in E |-> Engine(seed, b.state)._pending_orders]
        /\ evts = [e \in E |-> <<>>]
        /\ targets = [e \in E |-> <<>>]
        /\ call = [op |-> "init", arg |-> seed]
        /\ nsteps = [e \in E |-> 0]
        /\ norders = [e \in E |-> 0]
        /\ processed = [e \in E |-> <<>>]
        /\ turn = 1
        /\ NoRunner

Init == InitWith({1})
InitDet == InitWith({1, 2})

\* A generator kept at module level: every instance draws from the first one's.
Self_module_level_rng(e) ==
    [state |-> state[e], _rng |-> _rng[1], _pending_orders |-> _pending_orders[e],
     evts |-> evts[e], targets |-> targets[e]]

\* Instance e: every attribute is the instance's own.
Self(e) ==
    [state |-> state[e], _rng |-> _rng[e], _pending_orders |-> _pending_orders[e],
     evts |-> evts[e], targets |-> targets[e]]

step(self, dt_ms) ==
    IF variant = "1D" THEN step1D(self, dt_ms) ELSE step2D(self, dt_ms)

NextTurn(e) == IF e + 1 \in DOMAIN state THEN e + 1 ELSE 1

\* The driver calls instance 1 freely; every further instance is given the
\* call instance 1 was given last.
ApplyOrders(e, orders) ==
    /\ turn = e
    /\ IF e = 1
       THEN orders \in SeqsUpTo(OrderPool(state[e].battle_id),
                                MaxOrders - norders[e])
       ELSE call = [op |-> "apply_orders", arg |-> orders]
    /\ \E r \in {apply_orders(Self(e), orders)} :
          /\ state' = [state EXCEPT ![e] = r.state]
          /\ _pending_orders' = [_pending_orders EXCEPT ![e] = r._pending_orders]
          /\ _rng' = [_rng EXCEPT ![e] = r._rng]
          /\ targets' = [targets EXCEPT ![e] = r.targets]
    /\ evts' = [evts EXCEPT ![e] = <<>>]
    /\ call' = [op |-> "apply_orders", arg |-> orders]
    /\ turn' = NextTurn(e)
    /\ norders' = [norders EXCEPT ![e] = @ + Len(orders)]
    /\ UNCHANGED <<variant, nsteps, processed, rvars>>

Step(e, dt_ms) ==
    /\ turn = e
    /\ IF e = 1
       THEN dt_ms \in DtSet /\ nsteps[e] < MaxSteps
       ELSE call = [op |-> "step", arg |-> dt_ms]
    /\ \E r \in {step(Self(e), dt_ms)} :
          /\ state' = [state EXCEPT ![e] = r.state]
          /\ _pending_orders' = [_pending_orders EXCEPT ![e] = r._pending_orders]
          /\ _rng' = [_rng EXCEPT ![e] = r._rng]
          /\ evts' = [evts EXCEPT ![e] = r.evts]
          /\ targets' = [targets EXCEPT ![e] = r.targets]
    /\ nsteps' = [nsteps EXCEPT ![e] = @ + 1]
    /\ processed' = [processed EXCEPT ![e] = _pending_orders[e]]
    /\ call' = [op |-> "step", arg |-> dt_ms]
    /\ turn' = NextTurn(e)
    /\ UNCHANGED <<variant, norders, rvars>>

Next ==
    \E e \in DOMAIN state :
        \/ \E orders \in SeqsUpTo(OrderPool(state[e].battle_id), MaxOrders) :
               ApplyOrders(e, orders)
        \/ \E dt_ms \in DtSet : Step(e, dt_ms)

Spec == Init /\ [][Next]_vars
SpecDet == InitDet /\ [][Next]_vars

(***************************************************************************)
(* The event log, src/backend/runtime/eventlog.py.                         *)
(***************************************************************************)
MaxLog == 3         \* events in the log of the log specification

\* Python's normalisation of a slice index i on a list of n items.
slice_index(n, i) == IF i < 0 THEN Max(0, n + i) ELSE Min(n, i)
\* Python's list[lo:hi].
slice(list, lo, hi) ==
    SubSeq(list, slice_index(Len(list), lo) + 1, slice_index(Len(list), hi))

\* An append_many that keeps only the latest batch.
append_many_latest(log, batch) == [_log |-> batch, ret |-> <<0, Len(batch) - 1>>]

\* EventLog.append_many: the new list and the returned (start, end).
append_many(log, batch) ==
    [_log |-> log \o batch, ret |-> <<Len(log), Len(log \o batch) - 1>>]

\* EventLog.since with a resume offset that advances by the limit asked for.
since_resume_by_limit(log, offset, limit) ==
    <<slice(log, Max(0, offset), Max(0, offset) + limit), Max(0, offset) + limit>>

\* EventLog.since: the returned (chunk, next offset).
since(log, offset, limit) ==
    <<slice(log, Max(0, offset), Max(0, offset) + limit),
      Max(0, offset) + Len(slice(log, Max(0, offset), Max(0, offset) + limit))>>

\* What the callers of the log pass in.
EventPool ==
    {Event("Routed", 0, [unit_id |-> "R1"]), Event("Destroyed", 500, [unit_id |-> "B1"])}
LogBatches == {<<>>} \cup SeqsUpTo(EventPool, 2)
OffsetSet == (0 - 2) .. (MaxLog + 1)
LimitSet == {0 - 2, 0 - 1, 0, 1, 2, 1000}

\* No engine is attached: the log is used on its own.
NoEngine ==
    /\ variant = "none" /\ state = <<>> /\ _pending_orders = <<>> /\ _rng = <<>>
    /\ evts = <<>> /\ targets = <<>> /\ nsteps = <<>> /\ norders = <<>>
    /\ processed = <<>> /\ turn = 0

\* EventLog.__init__
InitLog ==
    /\ NoEngine
    /\ call = [op |-> "init", arg |-> <<>>]
    /\ _log = <<>> /\ client = NoClient
    /\ runner = <<>> /\ loops = <<>> /\ callers = <<>> /\ trace = <<>>

AppendMany(batch) ==
    /\ Len(_log) + Len(batch) <= MaxLog
    /\ \E r \in {append_many(_log, batch)} :
          /\ _log' = r._log
          /\ client' = [client EXCEPT !.ret = r.ret]
    /\ call' = [op |-> "append_many", arg |-> batch]
    /\ UNCHANGED <<evars, runner, loops, callers, trace>>

\* get_events: any offset, any limit.
Since(offset, limit) ==
    /\ client' = [client EXCEPT !.ret = since(_log, offset, limit)]
    /\ call' = [op |-> "since", arg |-> <<offset, limit>>]
    /\ UNCHANGED <<evars, _log, runner, loops, callers, trace>>

\* A consumer polling get_events from offset 0, passing on the offset returned.
Poll(limit) ==
    /\ \E r \in {since(_log, client.cursor, limit)} :
          client' = [ret |-> r, cursor |-> r[2], received |-> client.received \o r[1]]
    /\ call' = [op |-> "poll", arg |-> <<client.cursor, limit>>]
    /\ UNCHANGED <<evars, _log, runner, loops, callers, trace>>

NextLog ==
    \/ \E batch \in LogBatches : AppendMany(batch)
    \/ \E offset \in OffsetSet : \E limit \in LimitSet : Since(offset, limit)
    \/ \E limit \in LimitSet : Poll(limit)

SpecLog == InitLog /\ [][NextLog]_vars

(***************************************************************************)
(* The tick scheduler, src/runtime/runner.py.  Every coroutine runs on one *)
(* event loop: a task runs until it suspends, and the only awaits that     *)
(* suspend are the loop's asyncio.sleep (line 58) and stop()'s wait for    *)
(* the cancelled task (line 32).  The lock is free whenever a task         *)
(* suspends and the queue is unbounded, so acquiring the one and putting   *)
(* into the other never suspend.  A cancellation reaches the loop task     *)
(* where it is suspended: before its first run or in its sleep.            *)
(* time_compression is counted in hundredths; sleep_s is a fraction        *)
(* <<numerator, denominator>> of seconds.                                  *)
(***************************************************************************)
MaxTicks == 2       \* loop iterations
MaxLoops == 3       \* loop tasks created
MaxBatches == 2     \* enqueue_orders calls

NoTask == 0         \* self._task is None
Callers == {"a", "b"}

\* (tick_ms / 1000.0) / max(1.0, time_compression)
sleep_seconds(tick_ms, time_compression) ==
    <<tick_ms, 10 * Max(100, time_compression)>>

\* TickRunner.__init__
TickRunner(tick_ms, time_compression) ==
    [tick_ms |-> tick_ms, time_compression |-> time_compression,
     sleep_s |-> sleep_seconds(tick_ms, time_compression),
     _orders |-> <<>>, _task |-> NoTask, _lock |-> FALSE]

\* TickRunner.set_time_compression
set_time_compression(self, time_compression) ==
    [self EXCEPT !.time_compression = Max(10, Min(100000, time_compression)),
                 !.sleep_s = sleep_seconds(self.tick_ms,
                                           Max(10, Min(100000, time_compression)))]

RECURSIVE Concat(_)
Concat(q) == IF q = <<>> THEN <<>> ELSE Head(q) \o Concat(Tail(q))

\* A drain loop that takes one batch per tick.
drain_one_batch(q) ==
    IF q = <<>> THEN [batched |-> <<>>, _orders |-> <<>>]
    ELSE [batched |-> Head(q), _orders |-> Tail(q)]

\* _loop, lines 40-47: get_nowait until the queue is empty.
drain(q) == [batched |-> Concat(q), _orders |-> <<>>]

\* A lock that is never taken.
acquire_nothing(self) == self

\* asyncio.Lock: acquire when free, release.
acquire(self) == [self EXCEPT !._lock = TRUE]
release(self) == [self EXCEPT !._lock = FALSE]

\* Some task is in the middle of its synchronous section (the loop between
\* taking the lock and its sleep); no other task runs then.
Running == \E l \in DOMAIN loops : loops[l].pc = "locked"

\* The loop tasks that have not terminated.
Alive == {l \in DOMAIN loops : loops[l].pc # "done"}

\* What the API layer passes to the runner.
RunnerBattles == {b \in Battles : b.state.battle_id = "skirmish"}
BatchPool(battle_id) ==
    {<<>>}
    \cup {<<o>> : o \in {p \in OrderPool(battle_id) :
                              p.kind = "attack" /\ p.target_unit_id # NoId}}
    \cup {<<o1, o2>> : o1 \in {p \in OrderPool(battle_id) : p.kind = "move"},
                       o2 \in {p \in OrderPool(battle_id) : p.kind = "defend"}}
FactorSet == {0 - 100, 5, 50, 100, 3000, 200000}

Trace(initial_state) ==
    [last |-> "none", quiet |-> FALSE, enqueued |-> <<>>, handed |-> <<>>,
     applied |-> <<>>,
     iterations |-> 0, ticks |-> 0, batches |-> 0, ts0 |-> initial_state.ts_ms,
     completed |-> initial_state, outputs |-> <<>>, seen |-> <<>>, slept |-> <<>>]

\* startup(): Engine(seed=42, ...) and TickRunner(eng, tick_ms=500, ...).
InitRunnerWith(B, F) ==
    \E b \in B : \E time_compression \in F :
        /\ variant = b.variant
        /\ state = [e \in {1} |-> Engine(42, b.state).state]
        /\ _rng = [e \in {1} |-> Engine(42, b.state)._rng]
        /\ _pending_orders = [e \in {1} |-> <<>>]
        /\ evts = [e \in {1} |-> <<>>]
        /\ targets = [e \in {1} |-> <<>>]
        /\ nsteps = [e \in {1} |-> 0]
        /\ norders = [e \in {1} |-> 0]
        /\ processed = [e \in {1} |-> <<>>]
        /\ turn = 1
        /\ call = [op |-> "init", arg |-> time_compression]
        /\ _log = <<>>
        /\ client = NoClient
        /\ runner = TickRunner(500, time_compression)
        /\ loops = <<>>
        /\ callers = [c \in Callers |-> [pc |-> "idle", awaiting |-> NoTask]]
        /\ trace = Trace(b.state)

InitRunner == InitRunnerWith(RunnerBattles, {3000})

\* TickRunner.start
Start(c) ==
    /\ ~Running /\ callers[c].pc = "idle"
    /\ runner._task # NoTask \/ Len(loops) < MaxLoops
    /\ IF runner._task # NoTask
       THEN UNCHANGED <<runner, loops>>
       ELSE /\ loops' = Append(loops, [pc |-> "created", cancel |-> FALSE])
            /\ runner' = [runner EXCEPT !._task = Len(loops) + 1]
    /\ trace' = [trace EXCEPT !.last = "start", !.quiet = FALSE]
    /\ UNCHANGED <<evars, call, _log, client, callers>>

\* TickRunner.stop up to its await: the task is told to cancel; awaiting a
\* task that has already terminated returns at once.
StopCall(c) ==
    /\ ~Running /\ callers[c].pc = "idle"
    /\ IF runner._task = NoTask
       THEN /\ UNCHANGED <<runner, loops, callers>>
            /\ trace' = [trace EXCEPT !.last = "stop", !.quiet = TRUE]
       ELSE IF loops[runner._task].pc = "done"
       THEN /\ runner' = [runner EXCEPT !._task = NoTask]
            /\ UNCHANGED <<loops, callers>>
            /\ trace' = [trace EXCEPT !.last = "stop", !.quiet = TRUE]
       ELSE /\ loops' = [loops EXCEPT ![runner._task].cancel = TRUE]
            /\ callers' = [callers EXCEPT ![c] = [pc |-> "stop_wait", awaiting |-> runner._task]]
            /\ trace' = [trace EXCEPT !.last = "stop"]
            /\ UNCHANGED runner
    /\ UNCHANGED <<evars, call, _log, client>>

\* TickRunner.stop from its await on: lines 33-35.
StopReturn(c) ==
    /\ ~Running /\ callers[c].pc = "stop_wait"
    /\ loops[callers[c].awaiting].pc = "done"
    /\ runner' = [runner EXCEPT !._task = NoTask]
    /\ callers' = [callers EXCEPT ![c] = [pc |-> "idle", awaiting |-> NoTask]]
    /\ trace' = [trace EXCEPT !.quiet = TRUE]
    /\ UNCHANGED <<evars, call, _log, client, loops>>

\* TickRunner.enqueue_orders
EnqueueOrders(orders) ==
    /\ ~Running /\ trace.batches < MaxBatches
    /\ runner' = [runner EXCEPT !._orders = Append(@, orders)]
    /\ trace' = [trace EXCEPT !.enqueued = @ \o orders, !.batches = @ + 1]
    /\ UNCHANGED <<evars, call, _log, client, loops, callers>>

\* TickRunner.snapshot: the lock is taken, the State read, the lock released.
Snapshot ==
    /\ ~Running /\ ~runner._lock
    /\ client' = [client EXCEPT !.ret = state[1]]
    /\ trace' = [trace EXCEPT !.seen = trace.completed]
    /\ UNCHANGED <<evars, call, _log, runner, loops, callers>>

\* TickRunner.set_time_compression
SetTimeCompression(time_compression) ==
    /\ ~Running
    /\ runner' = set_time_compression(runner, time_compression)
    /\ UNCHANGED <<evars, call, _log, client, loops, callers, trace>>

\* _loop, lines 40-52: drain the queue, take the lock, hand over the orders.
LoopEnter(l) ==
    /\ ~Running /\ ~runner._lock /\ trace.iterations < MaxTicks
    /\ loops[l].pc \in {"created", "sleeping"} /\ ~loops[l].cancel
    /\ \E d \in {drain(runner._orders)} :
          /\ runner' = acquire([runner EXCEPT !._orders = d._orders])
          /\ \E r \in {IF d.batched # <<>> THEN apply_orders(Self(1), d.batched)
                                           ELSE Self(1)} :
                _pending_orders' = [_pending_orders EXCEPT ![1] = r._pending_orders]
          /\ norders' = [norders EXCEPT ![1] = @ + Len(d.batched)]
          /\ trace' = [trace EXCEPT !.handed = @ \o d.batched, !.iterations = @ + 1]
          /\ loops' = [loops EXCEPT ![l].pc = "locked"]
    /\ UNCHANGED <<variant, state, _rng, evts, targets, nsteps, processed, turn,
                   call, _log, client, callers>>

\* _loop, lines 53-58: step, release the lock, log the events, sleep.
LoopStep(l) ==
    /\ loops[l].pc = "locked"
    /\ \E r \in {step(Self(1), runner.tick_ms)} :
          /\ state' = [state EXCEPT ![1] = r.state]
          /\ _pending_orders' = [_pending_orders EXCEPT ![1] = r._pending_orders]
          /\ _rng' = [_rng EXCEPT ![1] = r._rng]
          /\ evts' = [evts EXCEPT ![1] = r.evts]
          /\ targets' = [targets EXCEPT ![1] = r.targets]
          /\ _log' = append_many(_log, r.evts)._log
          /\ trace' = [trace EXCEPT !.ticks = @ + 1, !.completed = r.state,
                                    !.outputs = @ \o r.evts,
                                    !.applied = @ \o _pending_orders[1],
                                    !.slept = <<runner.sleep_s, runner.time_compression>>]
    /\ nsteps' = [nsteps EXCEPT ![1] = @ + 1]
    /\ processed' = [processed EXCEPT ![1] = _pending_orders[1]]
    /\ runner' = release(runner)
    /\ loops' = [loops EXCEPT ![l].pc = "sleeping"]
    /\ UNCHANGED <<variant, norders, turn, call, client, callers>>

\* The CancelledError raised in the loop task where it is suspended.
LoopCancelled(l) ==
    /\ ~Running
    /\ loops[l].pc \in {"created", "sleeping"} /\ loops[l].cancel
    /\ loops' = [loops EXCEPT ![l].pc = "done"]
    /\ UNCHANGED <<evars, call, _log, client, runner, callers, trace>>

NextRunner ==
    \/ \E c \in Callers : Start(c)
    \/ \E c \in Callers : StopCall(c)
    \/ \E c \in Callers : StopReturn(c)
    \/ \E orders \in BatchPool(state[1].battle_id) : EnqueueOrders(orders)
    \/ Snapshot
    \/ \E l \in DOMAIN loops : LoopEnter(l)
    \/ \E l \in DOMAIN loops : LoopStep(l)
    \/ \E l \in DOMAIN loops : LoopCancelled(l)

SpecRunner == InitRunner /\ [][NextRunner]_vars

\* The runner of one battle, built with any factor, and its time control.
InitPacing == InitRunnerWith({b \in Battles : b.state.battle_id = "test"}, FactorSet)

NextPacing ==
    \/ Start("a")
    \/ \E time_compression \in FactorSet : SetTimeCompression(time_compression)
    \/ \E l \in DOMAIN loops : LoopEnter(l)
    \/ \E l \in DOMAIN loops : LoopStep(l)

SpecPacing == InitPacing /\ [][NextPacing]_vars

(***************************************************************************)
(* Two typed-unit engines built from the same State and seed and stepped   *)
(* alike.  Instance 1 is given orders from the battle's pool; instance 2   *)
(* is given the same move and defend orders in the same order, with any    *)
(* attack orders of its own among them.                                    *)
(***************************************************************************)
IsNotAttack(o) == o.kind # "attack"
NonAttack(orders) == SelectSeq(orders, IsNotAttack)

\* Further attack orders a client may submit in each typed battle.
AttackPool(battle_id) ==
    CASE battle_id = "duel" -> {Order("attack", "R_MBT_1", None, "B_INF_1")}
      [] battle_id = "crossfire" -> {Order("attack", "B_MBT_2", None, "R_RECON_1")}
      [] OTHER -> {}

\* Order lists that differ from orders only in their attack orders: the
\* attack orders dropped, and then one of the pool put first or last.
Steered(battle_id, orders) ==
    {NonAttack(orders)}
    \cup {<<a>> \o NonAttack(orders) : a \in AttackPool(battle_id)}
    \cup {NonAttack(orders) \o <<a>> : a \in AttackPool(battle_id)}

\* The typed battles in which an attack order can name a target other than
\* the one the unit fires at.
SteerBattles == {"duel", "crossfire"}
\* The orders instance 1 is given: the pool's attack orders and one move order.
SteerPool(battle_id) ==
    {o \in OrderPool(battle_id) :
        o.kind = "attack" \/ (o.kind = "move" /\ o.unit_id \in {"B_INF_1", "R_RECON_1"})}
InitSteer == InitWith({1, 2}) /\ state[1].battle_id \in SteerBattles

\* apply_orders on instance 2, after instance 1 was given call.arg.
ApplySteered(e, orders) ==
    /\ turn = e /\ e # 1
    /\ call.op = "apply_orders"
    /\ orders \in Steered(state[e].battle_id, call.arg)
    /\ \E r \in {apply_orders(Self(e), orders)} :
          /\ state' = [state EXCEPT ![e] = r.state]
          /\ _pending_orders' = [_pending_orders EXCEPT ![e] = r._pending_orders]
          /\ _rng' = [_rng EXCEPT ![e] = r._rng]
          /\ targets' = [targets EXCEPT ![e] = r.targets]
    /\ evts' = [evts EXCEPT ![e] = <<>>]
    /\ call' = [op |-> "apply_orders", arg |-> orders]
    /\ turn' = NextTurn(e)
    /\ norders' = [norders EXCEPT ![e] = @ + Len(orders)]
    /\ UNCHANGED <<variant, nsteps, processed, rvars>>

NextSteer ==
    \/ \E orders \in SeqsUpTo(SteerPool(state[1].battle_id), MaxOrders) :
           ApplyOrders(1, orders)
    \/ /\ turn = 2 /\ call.op = "apply_orders"
       /\ \E orders \in Steered(state[2].battle_id, call.arg) : ApplySteered(2, orders)
    \/ \E e \in DOMAIN state : \E dt_ms \in DtSet : Step(e, dt_ms)

SpecSteer == InitSteer /\ [][NextSteer]_vars

(***************************************************************************)
(* A march: one engine is given one batch of move orders before its first  *)
(* step and is then stepped, with no further orders, up to MaxMarch times. *)
(* Steps keep coming for as long as the bound allows, as they do under the *)
(* runner's loop.                                                          *)
(***************************************************************************)
MaxMarch == 4

\* Move orders to points a few metres away, one of them (battery) 0.05 m away.
MarchPool(battle_id) ==
    CASE battle_id = "test" ->
           {Order1D("move", "B1", <<M(1000) + 70>>, NoId),
            Order1D("move", "R1", <<M(9000) - 20>>, NoId)}
      [] battle_id = "skirmish" ->
           {Order1D("move", "R1", <<M(1500) + 30>>, NoId),
            Order1D("move", "B1", <<M(1000) - 50>>, NoId)}
      [] battle_id = "duel" ->
           {Order("move", "B_INF_1", <<24, 32>>, NoId),
            Order("move", "B_INF_1", <<0, 45>>, NoId)}
      [] battle_id = "crossfire" ->
           {Order("move", "B_MBT_2", <<M(600) - 50, 0>>, NoId),
            Order("move", "R_RECON_1", <<M(300), 100>>, NoId)}
      [] battle_id = "overwatch" ->
           {Order("move", "B_RECON_1", <<0, 100>>, NoId),
            Order("move", "R_MBT_1", <<M(2000) - 70, 0>>, NoId)}
      [] battle_id = "battery" ->
           {Order("move", "B_RECON_1", <<M(1000) + 100, 0>>, NoId),
            Order("move", "B_RECON_1", <<M(1000) + 1, 0>>, NoId)}

InitMove == Init

\* apply_orders, called once, before the first step.
GiveOrders(orders) ==
    /\ nsteps[1] = 0 /\ norders[1] = 0
    /\ orders \in SeqsUpTo(MarchPool(state[1].battle_id), 2)
    /\ \E r \in {apply_orders(Self(1), orders)} :
          /\ state' = [state EXCEPT ![1] = r.state]
          /\ _pending_orders' = [_pending_orders EXCEPT ![1] = r._pending_orders]
          /\ _rng' = [_rng EXCEPT ![1] = r._rng]
          /\ targets' = [targets EXCEPT ![1] = r.targets]
    /\ evts' = [evts EXCEPT ![1] = <<>>]
    /\ call' = [op |-> "apply_orders", arg |-> orders]
    /\ norders' = [norders EXCEPT ![1] = @ + Len(orders)]
    /\ UNCHANGED <<variant, nsteps, processed, turn, rvars>>

\* step(dt_ms)
March(dt_ms) ==
    /\ dt_ms \in DtSet /\ nsteps[1] < MaxMarch
    /\ \E r \in {step(Self(1), dt_ms)} :
          /\ state' = [state EXCEPT ![1] = r.state]
          /\ _pending_orders' = [_pending_orders EXCEPT ![1] = r._pending_orders]
          /\ _rng' = [_rng EXCEPT ![1] = r._rng]
          /\ evts' = [evts EXCEPT ![1] = r.evts]
          /\ targets' = [targets EXCEPT ![1] = r.targets]
    /\ nsteps' = [nsteps EXCEPT ![1] = @ + 1]
    /\ processed' = [processed EXCEPT ![1] = _pending_orders[1]]
    /\ call' = [op |-> "step", arg |-> dt_ms]
    /\ UNCHANGED <<variant, norders, turn, rvars>>

NextMove ==
    \/ \E orders \in SeqsUpTo(MarchPool(state[1].battle_id), 2) : GiveOrders(orders)
    \/ \E dt_ms \in DtSet : March(dt_ms)

\* The steps of NextMove that change nsteps are the March steps, and March
\* is enabled exactly while nsteps is below the bound; weak fairness of March
\* is therefore stated on nsteps alone.
Marched == nsteps[1] < MaxMarch /\ nsteps' = [nsteps EXCEPT ![1] = @ + 1]

SpecMove == InitMove /\ [][NextMove]_vars /\ WF_nsteps(Marched)

(***************************************************************************)
(* _calculate_damage on its own: every weapon type against every armor.    *)
(***************************************************************************)
WeaponTypes == {"direct_fire", "indirect_fire", "small_arms", "anti_tank"}
ArmorLevels == 0..3
BaseDamages == {HP(1), HP(2), HP(5), HP(30), HP(50), HP(60), HP(100)}

InitDamage == NoEngine /\ NoRunner /\ call = [op |-> "init", arg |-> <<>>]

CalculateDamage(weapon, armor, base_damage) ==
    /\ call' = [op |-> "_calculate_damage", arg |-> <<weapon, armor, base_damage>>]
    /\ client' = [client EXCEPT !.ret = damage_for(weapon, armor, base_damage)]
    /\ UNCHANGED <<evars, _log, runner, loops, callers, trace>>

NextDamage ==
    \E weapon \in WeaponTypes : \E armor \in ArmorLevels :
        \E base_damage \in BaseDamages : CalculateDamage(weapon, armor, base_damage)

SpecDamage == InitDamage /\ [][NextDamage]_vars

(***************************************************************************)
(* Vocabulary of the properties.                                           *)
(***************************************************************************)
Engines == DOMAIN state
UnitsOf(e) == DOMAIN state[e].units
Stepped(e) == nsteps'[e] = nsteps[e] + 1          \* this transition is e.step()
Applied(e) == turn = e /\ nsteps'[e] = nsteps[e]  \* this transition is e.apply_orders()
PosOf(u) == IF variant = "1D" THEN u.pos_m ELSE u.pos
IntentOf(u) == IF variant = "1D" THEN u.intent_target_pos_m ELSE u.intent_target_pos
AtIntent(u) == IntentOf(u) = (IF variant = "1D" THEN <<u.pos_m>> ELSE u.pos)
TargetPosOf(o) == IF variant = "1D" THEN o.target_pos_m ELSE o.target_pos
Kinds(es, ks) == {i \in 1..Len(es) : es[i].kind \in ks}
ShotsBy(es, u) == {i \in Kinds(es, {"ShotFired"}) : es[i].data.shooter = u}
Shooters(tgts) == {tgts[i][1] : i \in 1..Len(tgts)}
CombatKinds == {"ShotFired", "Damage", "Destroyed"}

C3_AmmoMonotone ==
    /\ [](\A e \in Engines : \A u \in UnitsOf(e) : state[e].units[u].ammo >= 0)
    /\ [][\A e \in Engines : \A u \in UnitsOf(e) :
            /\ state'[e].units[u].ammo <= state[e].units[u].ammo
            /\ state'[e].units[u].ammo =
                  state[e].units[u].ammo
                  - (IF Stepped(e) THEN Cardinality(ShotsBy(evts'[e], u)) ELSE 0)]_vars

\* A unit fired its last round and missed.
C3_Witness ==
    \E e \in Engines : \E u \in UnitsOf(e) :
        /\ state[e].units[u].ammo = 0
        /\ \E i \in ShotsBy(evts[e], u) :
              i = Len(evts[e]) \/ evts[e][i + 1].kind # "Damage"

(***************************************************************************)
(* C4  No self-or-friendly fire.  The shooter and the target of every      *)
(* ShotFired event are different units of opposite sides, and every Damage *)
(* event hits a unit of the side opposite to the unit that fired.          *)
(***************************************************************************)
C4_NoFriendlyFire ==
    \A e \in Engines : \A i \in 1..Len(evts[e]) :
        /\ evts[e][i].kind = "ShotFired" =>
              /\ evts[e][i].data.shooter # evts[e][i].data.target
              /\ state[e].units[evts[e][i].data.shooter].side
                     # state[e].units[evts[e][i].data.target].side
        /\ evts[e][i].kind = "Damage" =>
              /\ i > 1
              /\ evts[e][i - 1].kind = "ShotFired"
              /\ evts[e][i - 1].data.target = evts[e][i].data.target
              /\ state[e].units[evts[e][i - 1].data.shooter].side
                     # state[e].units[evts[e][i].data.target].side
              /\ variant = "2D" =>
                     evts[e][i].data.shooter = evts[e][i - 1].data.shooter

\* A unit fired at an enemy although a unit of its own side stands nearer.
C4_Witness ==
    \E e \in Engines : \E i \in Kinds(evts[e], {"Damage"}) :
        \E f \in UnitsOf(e) :
            LET s == state[e].units[evts[e][i - 1].data.shooter]
                t == state[e].units[evts[e][i].data.target]
            IN /\ variant = "1D"
               /\ f # s.id
               /\ state[e].units[f].side = s.side
               /\ Abs(state[e].units[f].pos_m - s.pos_m) < Abs(t.pos_m - s.pos_m)

(***************************************************************************)
(* C5  Event ordering within a step.  In the list one step() returns no    *)
(* OrderAccepted event comes after a ShotFired, Damage or Destroyed event, *)
(* and no Routed event comes before any of those or before an              *)
(* OrderAccepted; every Damage directly follows the ShotFired at the same  *)
(* target (of the same shooter, where the event names it), and every       *)
(* Destroyed directly follows a Damage of that unit that left hp <= 0.     *)
(***************************************************************************)
C5_EventOrdering ==
    \A e \in Engines :
        /\ \A i, j \in 1..Len(evts[e]) :
              i < j =>
                 /\ ~(evts[e][i].kind \in CombatKinds /\ evts[e][j].kind = "OrderAccepted")
                 /\ ~(evts[e][i].kind = "Routed"
                      /\ evts[e][j].kind \in CombatKinds \cup {"OrderAccepted"})
        /\ \A i \in Kinds(evts[e], {"Damage"}) :
              /\ i > 1
              /\ evts[e][i - 1].kind = "ShotFired"
              /\ evts[e][i - 1].data.target = evts[e][i].data.target
              /\ variant = "2D" => evts[e][i - 1].data.shooter = evts[e][i].data.shooter
        /\ \A i \in Kinds(evts[e], {"Destroyed"}) :
              /\ i > 1
              /\ evts[e][i - 1].kind = "Damage"
              /\ evts[e][i - 1].data.target = evts[e][i].data.unit_id
              /\ evts[e][i - 1].data.hp <= 0
              /\ variant = "2D" => evts[e][i - 1].data.shooter = evts[e][i].data.killer

\* One step accepted an order, fired, hit, destroyed and routed.
C5_Witness ==
    \E e \in Engines :
        /\ Kinds(evts[e], {"OrderAccepted"}) # {}
        /\ Kinds(evts[e], {"ShotFired"}) # {}
        /\ Kinds(evts[e], {"Destroyed"}) # {}
        /\ Kinds(evts[e], {"Routed"}) # {}

(***************************************************************************)
(* Orders as the specification describes them: an order is acted on when   *)
(* its unit exists and is not routed at the start of the step and the      *)
(* order carries what its kind needs.                                      *)
(***************************************************************************)
WellFormed(o) ==
    \/ o.kind = "move" /\ TargetPosOf(o) # None
    \/ o.kind = "attack" /\ o.target_unit_id \notin {NoId, ""}
    \/ o.kind = "defend"
Addressed(e, o) == o.unit_id \in UnitsOf(e) /\ ~state[e].units[o.unit_id].routed
Acceptable(e, o) == Addressed(e, o) /\ WellFormed(o)
\* Indices of the acceptable orders of kinds ks that P holds for unit u.
OrdersFor(e, P, u, ks) ==
    {i \in 1..Len(P) : Acceptable(e, P[i]) /\ P[i].unit_id = u /\ P[i].kind \in ks}
Last(S) == IF S = {} THEN 0 ELSE CHOOSE i \in S : \A j \in S : j <= i
NAcceptable(e, P) == Cardinality({i \in 1..Len(P) : Acceptable(e, P[i])})
\* The i-th acceptable order of P.
NthAcceptable(e, P, n) ==
    CHOOSE i \in 1..Len(P) :
        /\ Acceptable(e, P[i])
        /\ Cardinality({j \in 1..i : Acceptable(e, P[j])}) = n

(***************************************************************************)
(* C6  Invalid orders are dropped silently.  A step whose buffer holds     *)
(* orders for unknown or routed units completes; every OrderAccepted event *)
(* it returns names a known unit that was not routed, the number of those  *)
(* events is the number of acceptable orders of the buffer (the invalid    *)
(* ones stop no other order), and a unit with no acceptable order keeps    *)
(* its intent and target.                                                  *)
(***************************************************************************)
C6_InvalidOrdersDropped ==
    [][\A e \in Engines : Stepped(e) =>
          /\ \A i \in Kinds(evts'[e], {"OrderAccepted"}) :
                /\ evts'[e][i].data.unit_id \in UnitsOf(e)
                /\ ~state[e].units[evts'[e][i].data.unit_id].routed
                /\ \E j \in 1..Len(_pending_orders[e]) :
                      /\ _pending_orders[e][j].unit_id = evts'[e][i].data.unit_id
                      /\ _pending_orders[e][j].kind = evts'[e][i].data.kind
          /\ Cardinality(Kinds(evts'[e], {"OrderAccepted"}))
                = NAcceptable(e, _pending_orders[e])
          /\ \A u \in UnitsOf(e) :
                OrdersFor(e, _pending_orders[e], u, {"move", "attack", "defend"}) = {} =>
                   /\ IntentOf(state'[e].units[u]) = IntentOf(state[e].units[u])
                   /\ state'[e].units[u].target_id = state[e].units[u].target_id
          /\ state'[e].ts_ms = state[e].ts_ms + call'.arg]_vars

\* A step processed an order for a unit routed in an earlier step, dropped
\* it, and accepted the order queued behind it.
C6_Witness ==
    \E e \in Engines :
        /\ call.op = "step" /\ Len(processed[e]) = 2
        /\ processed[e][1].unit_id \in UnitsOf(e)
        /\ state[e].units[processed[e][1].unit_id].routed
        /\ \A i \in Kinds(evts[e], {"Routed"}) :
              evts[e][i].data.unit_id # processed[e][1].unit_id
        /\ IntentOf(state[e].units[processed[e][1].unit_id]) = None
        /\ processed[e][1].kind = "move"
        /\ Kinds(evts[e], {"OrderAccepted"}) = {1}
        /\ evts[e][1].data.unit_id = processed[e][2].unit_id

(***************************************************************************)
(* C7  Orders are consumed exactly once.  apply_orders changes neither the *)
(* State nor the generator, only appends its argument to the pending       *)
(* buffer and returns nothing; a step accepts each acceptable order of the *)
(* buffer once and leaves the buffer empty, so no later step sees it.      *)
(***************************************************************************)
C7_OrdersConsumedOnce ==
    [][\A e \in Engines :
          /\ Applied(e) =>
                /\ state'[e] = state[e]
                /\ _rng'[e] = _rng[e]
                /\ _pending_orders'[e] = _pending_orders[e] \o call'.arg
                /\ evts'[e] = <<>>
          /\ Stepped(e) =>
                /\ _pending_orders'[e] = <<>>
                /\ processed'[e] = _pending_orders[e]
                /\ \A n \in 1..NAcceptable(e, _pending_orders[e]) :
                      /\ evts'[e][n].kind = "OrderAccepted"
                      /\ evts'[e][n].data.unit_id
                            = _pending_orders[e][NthAcceptable(e, _pending_orders[e], n)].unit_id
                /\ \A i \in Kinds(evts'[e], {"OrderAccepted"}) :
                      i <= NAcceptable(e, _pending_orders[e])]_vars

\* The second step of an instance consumed a buffer of two orders, after
\* the first step had consumed another.
C7_Witness ==
    \E e \in Engines :
        /\ call.op = "step" /\ nsteps[e] = 2
        /\ Len(processed[e]) = 2
        /\ Kinds(evts[e], {"OrderAccepted"}) = {1, 2}
        /\ _pending_orders[e] = <<>>

\* What the orders of buffer P leave in a field of unit u: the value the last
\* acceptable order of the kinds ks that write the field sets, else the old one.
FieldAfter(e, P, u, ks, setter, old, set(_)) ==
    LET l == Last(OrdersFor(e, P, u, ks))
    IN IF l = 0 THEN old
       ELSE IF P[l].kind = setter THEN set(P[l])
       ELSE IF P[l].kind = "defend" THEN IF setter = "move" THEN None ELSE NoId
       ELSE old
TargetIdOf(o) == o.target_unit_id

(***************************************************************************)
(* C8  Submission order, last write wins per field.  A step accepts the    *)
(* acceptable orders of the buffer in submission order.  Afterwards a      *)
(* unit's movement intent is what the last acceptable move or defend order *)
(* for it set (unchanged when there is none) and its attack target is what *)
(* the last acceptable attack or defend order for it set (unchanged when   *)
(* there is none): a move and an attack of one batch both remain.          *)
(***************************************************************************)
C8_LastWriteWinsPerField ==
    [][\A e \in Engines : Stepped(e) =>
          /\ \A n \in 1..NAcceptable(e, _pending_orders[e]) :
                LET o == _pending_orders[e][NthAcceptable(e, _pending_orders[e], n)]
                IN /\ evts'[e][n].kind = "OrderAccepted"
                   /\ evts'[e][n].data.unit_id = o.unit_id
                   /\ evts'[e][n].data.kind = o.kind
          /\ \A u \in UnitsOf(e) :
                /\ IntentOf(state'[e].units[u])
                      = FieldAfter(e, _pending_orders[e], u, {"move", "defend"}, "move",
                                   IntentOf(state[e].units[u]), TargetPosOf)
                /\ state'[e].units[u].target_id
                      = FieldAfter(e, _pending_orders[e], u, {"attack", "defend"}, "attack",
                                   state[e].units[u].target_id, TargetIdOf)]_vars

\* The claim as stated: the last acceptable order for a unit alone determines
\* its intent and target, earlier orders of the batch leaving nothing.
C8_LastOrderAlone ==
    [][\A e \in Engines : Stepped(e) =>
          \A u \in UnitsOf(e) :
             LET P == _pending_orders[e]
                 l == Last(OrdersFor(e, P, u, {"move", "attack", "defend"}))
             IN l # 0 =>
                /\ IntentOf(state'[e].units[u])
                      = IF P[l].kind = "move" THEN TargetPosOf(P[l])
                        ELSE IF P[l].kind = "defend" THEN None
                        ELSE IntentOf(state[e].units[u])
                /\ state'[e].units[u].target_id
                      = IF P[l].kind = "attack" THEN P[l].target_unit_id
                        ELSE IF P[l].kind = "defend" THEN NoId
                        ELSE state[e].units[u].target_id]_vars

\* A step consumed a move followed by an attack for one unit; the unit holds
\* the move's position and the attack's target.
C8_Witness ==
    \E e \in Engines :
        /\ call.op = "step" /\ nsteps[e] = 1 /\ Len(processed[e]) = 2
        /\ processed[e][1].kind = "move" /\ processed[e][2].kind = "attack"
        /\ processed[e][1].unit_id = processed[e][2].unit_id
        /\ processed[e][1].unit_id \in UnitsOf(e)
        /\ IntentOf(state[e].units[processed[e][1].unit_id]) = TargetPosOf(processed[e][1])
        /\ IntentOf(state[e].units[processed[e][1].unit_id]) # None
        /\ state[e].units[processed[e][1].unit_id].target_id = processed[e][2].target_unit_id

\* The unit's speed in distance units per second.
SpeedOf(u) == IF variant = "1D" THEN u.speed_mps ELSE get_type(u).speed_mps
\* Unit u of instance e went, in this transition, stp toward T, which lay d away.
Advanced1D(e, u, T, d, stp) ==
    state'[e].units[u].pos_m
        = state[e].units[u].pos_m
          + (IF T > state[e].units[u].pos_m THEN stp ELSE 0 - stp)
Advanced2D(e, u, T, d, stp) ==
    /\ distance_2d(state'[e].units[u].pos, T) = d - stp
    /\ distance_2d(state[e].units[u].pos, state'[e].units[u].pos) = stp
\* The units whose last acceptable move-or-defend order in the buffer of
\* instance e is a move.
Ordered(e) ==
    {u \in UnitsOf(e) :
        LET l == Last(OrdersFor(e, _pending_orders[e], u, {"move", "defend"}))
        IN l # 0 /\ _pending_orders[e][l].kind = "move"}
OrderedTo(e, u) ==
    TargetPosOf(_pending_orders[e][Last(OrdersFor(e, _pending_orders[e], u, {"move"}))])

(***************************************************************************)
(* C9  A move order takes effect in the very next step.  The step that     *)
(* consumes a move order moves the unit min(speed x dt_ms/1000, remaining  *)
(* distance) toward the ordered position; in the typed-unit engine a unit  *)
(* less than 0.1 away from the ordered position does not move at all.  In  *)
(* the 1D engine B1 at 1000 with speed 2.0 ordered to 5000 is at 1001      *)
(* after step(500).                                                        *)
(***************************************************************************)
C9_MoveTakesEffectNextStep ==
    [][\A e \in Engines : Stepped(e) =>
          \A u \in Ordered(e) :
             LET T == OrderedTo(e, u)
                 d == IF variant = "1D" THEN Abs(T[1] - state[e].units[u].pos_m)
                      ELSE distance_2d(state[e].units[u].pos, T)
                 stp == Min((SpeedOf(state[e].units[u]) * call'.arg) \div 1000, d)
             IN /\ variant = "1D" => Advanced1D(e, u, T[1], d, stp)
                /\ variant = "2D" /\ d >= 2 => Advanced2D(e, u, T, d, stp)
                /\ variant = "2D" /\ d < 2 =>
                      state'[e].units[u].pos = state[e].units[u].pos
                /\ (/\ state[e].battle_id = "test" /\ u = "B1"
                    /\ state[e].units[u].pos_m = M(1000)
                    /\ T = <<M(5000)>> /\ call'.arg = 500)
                      => state'[e].units[u].pos_m = M(1001)]_vars

\* The claim as stated: the step moves the unit min(speed x dt_ms/1000,
\* remaining distance) toward the ordered position, however near that is.
C9_MovesByMinAlways ==
    [][\A e \in Engines : Stepped(e) =>
          \A u \in Ordered(e) :
             LET T == OrderedTo(e, u)
                 d == IF variant = "1D" THEN Abs(T[1] - state[e].units[u].pos_m)
                      ELSE distance_2d(state[e].units[u].pos, T)
                 stp == Min((SpeedOf(state[e].units[u]) * call'.arg) \div 1000, d)
             IN IF variant = "1D" THEN Advanced1D(e, u, T[1], d, stp)
                ELSE Advanced2D(e, u, T, d, stp)]_vars

\* The test's case: B1, ordered from 1000 to 5000, after one step(500).
C9_Witness ==
    \E e \in Engines :
        /\ state[e].battle_id = "test" /\ nsteps[e] = 1
        /\ call = [op |-> "step", arg |-> 500]
        /\ processed[e] = <<Order1D("move", "B1", <<M(5000)>>, NoId)>>
        /\ state[e].units["B1"].pos_m = M(1001)

(***************************************************************************)
(* C10  Simulation time.  A step(dt_ms) raises ts_ms by exactly dt_ms > 0, *)
(* apply_orders leaves it alone, and every event a step returns carries    *)
(* the ts_ms the State had before the step, hence a timestamp below the    *)
(* new ts_ms and above that of every event of the step before.             *)
(***************************************************************************)
C10_SimulationTime ==
    [][\A e \in Engines :
          /\ Stepped(e) =>
                /\ state'[e].ts_ms = state[e].ts_ms + call'.arg
                /\ state'[e].ts_ms > state[e].ts_ms
                /\ \A i \in 1..Len(evts'[e]) :
                      /\ evts'[e][i].ts_ms = state[e].ts_ms
                      /\ \A j \in 1..Len(evts[e]) :
                            nsteps[e] > 0 => evts[e][j].ts_ms < evts'[e][i].ts_ms
          /\ ~Stepped(e) => state'[e].ts_ms = state[e].ts_ms]_vars

\* A second step, of two different lengths, has returned events.
C10_Witness ==
    \E e \in Engines :
        /\ nsteps[e] = 2 /\ call = [op |-> "step", arg |-> 2000]
        /\ evts[e] # <<>>
        /\ \A i \in 1..Len(evts[e]) : evts[e][i].ts_ms = state[e].ts_ms - 2000
        /\ \E b \in Battles : b.state.battle_id = state[e].battle_id
                              /\ state[e].ts_ms = b.state.ts_ms + 2500


(***************************************************************************)
(* The event log.                                                          *)
(***************************************************************************)
IsPrefix(a, b) == Len(a) <= Len(b) /\ SubSeq(b, 1, Len(a)) = a
SinceStart == Max(0, call.arg[1])

\* C11: since(offset, limit), for every integer offset and limit, returns a
\* contiguous run of the log starting at max(0, offset), of at most limit
\* events (none for a limit below one), with the resume offset equal to the
\* start plus the number of events returned.
C11_SinceContract ==
    call.op = "since" =>
        /\ Len(client.ret[1]) <= Max(0, call.arg[2])
        /\ client.ret[1] =
              SubSeq(_log, SinceStart + 1, Min(Len(_log), SinceStart + Len(client.ret[1])))
        /\ client.ret[2] = SinceStart + Len(client.ret[1])

\* C12: the log only grows at its end, so an event keeps its offset;
\* append_many returns the offsets of the first and last event it added; a
\* consumer polling from 0 with the resume offset has received exactly the
\* events below its offset, once each and in log order, and a poll with a
\* positive limit moves it on while events remain.
C12_ConsumerHasPrefix ==
    /\ client.cursor <= Len(_log)
    /\ client.received = SubSeq(_log, 1, client.cursor)
C12_LogStep ==
    /\ IsPrefix(_log, _log')
    /\ call'.op = "append_many" =>
          /\ _log' = _log \o call'.arg
          /\ client'.ret = <<Len(_log), Len(_log') - 1>>
          /\ SubSeq(_log', client'.ret[1] + 1, client'.ret[2] + 1) = call'.arg
    /\ call'.op # "append_many" => _log' = _log
    /\ (call'.op = "poll" /\ call'.arg[2] >= 1 /\ client.cursor < Len(_log)) =>
          client'.cursor = Min(Len(_log), client.cursor + call'.arg[2])
C12_AppendOnlyLog == [](C12_ConsumerHasPrefix) /\ [][C12_LogStep]_vars
C12_Witness ==
    /\ call.op = "poll" /\ call.arg[1] > 0
    /\ Len(_log) >= 2 /\ client.received = _log


(***************************************************************************)
(* The tick scheduler.                                                     *)
(***************************************************************************)
AllReturned == \A c \in Callers : callers[c].pc = "idle"
InRange(time_compression) == time_compression >= 10 /\ time_compression <= 100000

\* C13: a TickRunner has at most one loop task alive at any time.
C13_SingleLoopTask == Cardinality(Alive) <= 1

\* C14: once every start() and stop() call has returned, the loop is running
\* if and only if the call invoked last was start().
C14_LastCallDecides ==
    (AllReturned /\ trace.last # "none") => ((Alive # {}) <=> (trace.last = "start"))

\* C15: every iteration that drained the queue has stepped once and logged
\* its events by the time the loop suspends: after n iterations ts_ms is the
\* initial value plus n x tick_ms, the log is the concatenation of the n
\* steps' outputs in tick order, and its timestamps never decrease.
C15_NoTickSkipped ==
    /\ trace.iterations = trace.ticks + (IF Running THEN 1 ELSE 0)
    /\ nsteps[1] = trace.ticks
    /\ state[1].ts_ms = trace.ts0 + trace.ticks * runner.tick_ms
    /\ _log = trace.outputs
    /\ \A i \in 1..Len(_log) :
          /\ _log[i].ts_ms < state[1].ts_ms
          /\ i > 1 => _log[i - 1].ts_ms <= _log[i].ts_ms
C15_Witness ==
    /\ trace.ticks = MaxTicks /\ ~Running
    /\ Len(_log) >= 2 /\ _log[1].ts_ms < _log[Len(_log)].ts_ms

\* C16: the orders ever enqueued are, in FIFO order, those the engine has
\* consumed, then those handed to it in the running tick, then those still
\* queued; a tick drains the whole queue, and whenever the loop is suspended,
\* cancelled or not, no drained order is left unapplied.
C16_NoOrderLost ==
    /\ trace.enqueued = trace.handed \o Concat(runner._orders)
    /\ trace.handed = trace.applied \o _pending_orders[1]
    /\ norders[1] = Len(trace.handed)
    /\ Running => runner._orders = <<>>
    /\ ~Running => _pending_orders[1] = <<>>
C16_Witness ==
    /\ trace.batches = MaxBatches /\ Len(trace.enqueued) >= 3
    /\ trace.applied = trace.enqueued
    /\ Len(loops) >= 2 /\ loops[1].pc = "done" /\ trace.ticks = MaxTicks

\* C17: the lock is held exactly while an iteration is between its drain and
\* the end of its step, and every State a snapshot returned is the State as
\* the last completed step (or the construction) left it.
C17_SnapshotSeesCompletedSteps ==
    /\ client.ret = trace.seen
    /\ Running <=> runner._lock
    /\ ~Running => state[1] = trace.completed
    /\ trace.seen # <<>> =>
          \E k \in 0..trace.ticks :
              trace.seen.ts_ms = trace.ts0 + k * runner.tick_ms
C17_Witness ==
    /\ client.ret = state[1] /\ trace.ticks >= 1
    /\ Alive # {} /\ runner._orders # <<>>

\* C18: a tick run with a time_compression in the effective range
\* [0.1, 1000.0], as set_time_compression stores it, suspends for
\* tick_seconds / time_compression.
C18_TickPacing ==
    (trace.slept # <<>> /\ InRange(trace.slept[2])) =>
        trace.slept[1][1] * 10 * trace.slept[2] = trace.slept[1][2] * runner.tick_ms

\* C19: the stored time_compression lies in [0.1, 1000.0].
C19_FactorInRange == InRange(runner.time_compression)

\* C20: from the return of a stop() until the next start() no loop iteration
\* runs.
C20_NoStepAfterStop == trace.quiet => ~Running

(***************************************************************************)
(* The typed-unit engine: destruction, targeting, damage, reload.          *)
(***************************************************************************)
Typed(e) == variant = "2D" /\ e \in Engines

\* C21: in the typed-unit engine no unit leaves the unit map, and a unit whose
\* hp is <= 0 keeps its position and its ammo in every later step.
C21_DestroyedFrozen ==
    [][\A e \in Engines : Typed(e) =>
          /\ UnitsOf(e) = DOMAIN state'[e].units
          /\ \A u \in UnitsOf(e) :
                state[e].units[u].hp <= 0 =>
                   /\ state'[e].units[u].pos = state[e].units[u].pos
                   /\ state'[e].units[u].ammo = state[e].units[u].ammo]_vars

\* The engine of instance e at the targeting phase of the step this
\* transition makes: orders applied, units moved, spotting recomputed.
AtTargeting(e) ==
    _update_spotting(_move(_apply_orders_now([Self(e) EXCEPT !.evts = <<>>]), call'.arg))
IndexOf(ids, id) == CHOOSE i \in 1..Len(ids) : ids[i] = id
Detects(d, t) ==
    10 * distance_2d(d.pos, t.pos) <= get_type(d).sensor_range_m * get_type(t).visibility
\* The eligibility conditions, on the units U and the time ts of the targeting phase.
Eligible(U, ts, s, t) ==
    /\ U[s].side # U[t].side /\ U[t].hp > 0
    /\ ts - U[s].last_fire_time >= get_type(U[s]).reload_time_s
    /\ U[s].ammo > 0
    /\ distance_2d(U[s].pos, U[t].pos) <= get_type(U[s]).weapon_range_m
    /\ IF get_type(U[s]).weapon_type = "indirect_fire"
       THEN \E d \in DOMAIN U : U[d].side = U[s].side /\ ~U[d].routed /\ Detects(U[d], U[t])
       ELSE Detects(U[s], U[t])
ChosenTarget(U, ids, ts, s, t) ==
    /\ ~U[s].routed /\ Eligible(U, ts, s, t)
    /\ \A t2 \in DOMAIN U :
          Eligible(U, ts, s, t2) =>
             \/ distance_2d(U[s].pos, U[t].pos) < distance_2d(U[s].pos, U[t2].pos)
             \/ /\ distance_2d(U[s].pos, U[t].pos) = distance_2d(U[s].pos, U[t2].pos)
                /\ IndexOf(ids, t) <= IndexOf(ids, t2)

\* C22: in a step of the typed-unit engine every unit fires at most one shot,
\* and the target of each ShotFired was, at the targeting phase, the closest
\* opposing unit with hp > 0 that the shooter could fire at (reload elapsed,
\* ammo left, in weapon range, detected by the shooter or, for indirect fire,
\* by a unit of its side), the first in unit-map order among equally close.
C22_ClosestEligibleTarget ==
    [][\A e \in Engines : (Typed(e) /\ Stepped(e)) =>
          /\ \A u \in UnitsOf(e) : Cardinality(ShotsBy(evts'[e], u)) <= 1
          /\ Kinds(evts'[e], {"ShotFired"}) # {} =>
                \E U \in {AtTargeting(e).state.units} :
                    \A i \in Kinds(evts'[e], {"ShotFired"}) :
                        ChosenTarget(U, state[e].ids, state[e].ts_ms,
                                     evts'[e][i].data.shooter, evts'[e][i].data.target)]_vars
\* The recon vehicle, equally far from both tanks and able to fire at either,
\* has fired at the first of them.
C22_Witness ==
    \E e \in Engines :
        /\ Typed(e) /\ call.op = "step" /\ state[e].battle_id = "crossfire"
        /\ \E i \in Kinds(evts[e], {"ShotFired"}) :
              /\ evts[e][i].data.shooter = "R_RECON_1"
              /\ evts[e][i].data.target = "B_MBT_1"
              /\ distance_2d(state[e].units["R_RECON_1"].pos, state[e].units["B_MBT_1"].pos)
                    = distance_2d(state[e].units["R_RECON_1"].pos,
                                  state[e].units["B_MBT_2"].pos)

\* The multipliers of the specification's table, in tenths, for armor 0..3.
DamageTable ==
    [small_arms |-> <<10, 10, 1, 1>>, anti_tank |-> <<10, 10, 15, 15>>,
     direct_fire |-> <<15, 15, 12, 8>>, indirect_fire |-> <<20, 12, 6, 6>>]

\* C23: for every weapon type and armor 0..3 _calculate_damage returns the
\* base damage times the multiplier of the table, a strictly positive value.
C23_DamageTable ==
    call.op = "_calculate_damage" =>
        /\ 10 * client.ret = DamageTable[call.arg[1]][call.arg[2] + 1] * call.arg[3]
        /\ client.ret > 0
\* Direct fire against medium armor, which none of the shipped unit types has.
C23_Witness ==
    /\ call = [op |-> "_calculate_damage", arg |-> <<"direct_fire", 2, HP(50)>>]
    /\ client.ret = HP(60)

\* The State the battle of instance e was built from.
InitialOf(e) == (CHOOSE b \in Battles : b.state.battle_id = state[e].battle_id).state
HasFired(e, u) == state[e].units[u].ammo < InitialOf(e).units[u].ammo

\* C24: in the typed-unit engine a unit's last-fire timestamp is 0 until it
\* fires and then the simulation time of its latest ShotFired; a unit fires at
\* time T only if T minus that timestamp is at least its reload time, so its
\* shots are a reload time apart and none comes before time reload_time_s.
C24_ReloadState ==
    \A e \in Engines : Typed(e) =>
        \A u \in UnitsOf(e) :
            IF HasFired(e, u)
            THEN /\ state[e].units[u].last_fire_time >= get_type(state[e].units[u]).reload_time_s
                 /\ state[e].units[u].last_fire_time < state[e].ts_ms
            ELSE state[e].units[u].last_fire_time = 0
C24_ReloadStep ==
    \A e \in Engines : Typed(e) =>
        \A u \in UnitsOf(e) :
            IF Stepped(e) /\ ShotsBy(evts'[e], u) # {}
            THEN /\ state[e].ts_ms - state[e].units[u].last_fire_time
                       >= get_type(state[e].units[u]).reload_time_s
                 /\ \A i \in ShotsBy(evts'[e], u) : evts'[e][i].ts_ms = state[e].ts_ms
                 /\ state'[e].units[u].last_fire_time = state[e].ts_ms
            ELSE state'[e].units[u].last_fire_time = state[e].units[u].last_fire_time
C24_Reload == [](C24_ReloadState) /\ [][C24_ReloadStep]_vars
\* The recon vehicle (reload 2 s) has fired at 6000 and again at 8000, while
\* the tank that fired at 6000 (reload 6 s) has not fired again.
C24_Witness ==
    \E e \in Engines :
        /\ Typed(e) /\ state[e].battle_id = "crossfire" /\ state[e].ts_ms > 8000
        /\ state[e].units["R_RECON_1"].last_fire_time = 8000
        /\ state[e].units["R_RECON_1"].ammo = 198
        /\ state[e].units["B_MBT_1"].last_fire_time = 6000
        /\ state[e].units["B_MBT_1"].ammo = 39

\* The sum of the dmg fields of the Damage events naming u among es[1..n].
RECURSIVE DamageUpTo(_, _, _)
DamageUpTo(es, n, u) ==
    IF n = 0 THEN 0
    ELSE DamageUpTo(es, n - 1, u)
         + (IF es[n].kind = "Damage" /\ es[n].data.target = u THEN es[n].data.dmg ELSE 0)

\* C25: in a step of the typed-unit engine the target of every ShotFired event
\* has hp > 0 at the moment of the shot (its hp before the step less the damage
\* of the step's earlier events); a unit whose selected target was destroyed
\* earlier in the combat phase fires no shot and keeps its ammo; and a
\* Destroyed event is emitted at most once per step and only for a unit that
\* had hp > 0 before the step and has hp <= 0 from then on.
C25_NoShotAtDestroyed ==
    [][\A e \in Engines : Typed(e) =>
          /\ \A u \in UnitsOf(e) :
                state[e].units[u].hp <= 0 => state'[e].units[u].hp <= 0
          /\ Stepped(e) =>
                /\ \A i \in Kinds(evts'[e], {"ShotFired"}) :
                      state[e].units[evts'[e][i].data.target].hp
                          - DamageUpTo(evts'[e], i, evts'[e][i].data.target) > 0
                /\ \A k \in 1..Len(targets'[e]) :
                      ShotsBy(evts'[e], targets'[e][k][1]) = {} =>
                          state'[e].units[targets'[e][k][1]].ammo
                              = state[e].units[targets'[e][k][1]].ammo
                /\ \A u \in UnitsOf(e) :
                      LET d == {i \in Kinds(evts'[e], {"Destroyed"}) :
                                    evts'[e][i].data.unit_id = u}
                      IN /\ Cardinality(d) <= 1
                         /\ d # {} => /\ state[e].units[u].hp > 0
                                      /\ state'[e].units[u].hp <= 0]_vars
\* Both tanks selected the recon vehicle; the first destroyed it, the second
\* did not fire and kept its 40 rounds.
C25_Witness ==
    \E e \in Engines :
        /\ Typed(e) /\ state[e].battle_id = "crossfire"
        /\ \E k \in 1..Len(targets[e]) : targets[e][k] = <<"B_MBT_2", "R_RECON_1">>
        /\ \E i \in Kinds(evts[e], {"Destroyed"}) :
              /\ evts[e][i].data.unit_id = "R_RECON_1"
              /\ evts[e][i].data.killer = "B_MBT_1"
        /\ ShotsBy(evts[e], "B_MBT_2") = {}
        /\ state[e].units["B_MBT_2"].ammo = 40
        /\ ~state[e].units["B_MBT_2"].routed

\* Event i of es is a Destroyed event for unit u.
DestroyedAt(es, i, u) ==
    i \in 1..Len(es) /\ es[i].kind = "Destroyed" /\ es[i].data.unit_id = u

\* C26: in both engines a unit's hp never exceeds its initial value and never
\* increases; it changes only in a step, by the dmg (> 0) of the step's Damage
\* events that name the unit; each Damage event's hp field is the hp the unit
\* has right after that subtraction; and the event that follows a Damage event
\* is a Destroyed event for its target exactly when that hp field is <= 0,
\* Destroyed events occurring nowhere else.
C26_HpBound ==
    \A e \in Engines : \A u \in UnitsOf(e) :
        state[e].units[u].hp <= InitialOf(e).units[u].hp
C26_HpStep ==
    \A e \in Engines : \A u \in UnitsOf(e) :
        /\ state'[e].units[u].hp <= state[e].units[u].hp
        /\ IF Stepped(e)
           THEN /\ state'[e].units[u].hp
                       = state[e].units[u].hp - DamageUpTo(evts'[e], Len(evts'[e]), u)
                /\ \A i \in Kinds(evts'[e], {"Damage"}) :
                      evts'[e][i].data.target = u =>
                          /\ evts'[e][i].data.dmg > 0
                          /\ evts'[e][i].data.hp
                                 = state[e].units[u].hp - DamageUpTo(evts'[e], i, u)
                          /\ DestroyedAt(evts'[e], i + 1, u) <=> evts'[e][i].data.hp <= 0
                /\ \A i \in 1..Len(evts'[e]) :
                      DestroyedAt(evts'[e], i, u) =>
                          /\ i > 1 /\ evts'[e][i - 1].kind = "Damage"
                          /\ evts'[e][i - 1].data.target = u
           ELSE state'[e].units[u].hp = state[e].units[u].hp
C26_HpOnlyDecreases == [](C26_HpBound) /\ [][C26_HpStep]_vars
\* A step with a hit that left its target alive and a hit that destroyed its
\* target.
C26_Witness ==
    \E e \in Engines :
        /\ \E i \in Kinds(evts[e], {"Damage"}) :
              /\ evts[e][i].data.hp > 0
              /\ state[e].units[evts[e][i].data.target].hp = evts[e][i].data.hp
              /\ ~DestroyedAt(evts[e], i + 1, evts[e][i].data.target)
        /\ \E i \in Kinds(evts[e], {"Damage"}) :
              /\ evts[e][i].data.hp <= 0
              /\ state[e].units[evts[e][i].data.target].hp = evts[e][i].data.hp
              /\ DestroyedAt(evts[e], i + 1, evts[e][i].data.target)

\* Ten times the hp below which unit u of instance e may rout: 0.3 of the
\* literal 100 in the 1D engine, 0.3 of its type's max_hp in the typed engine.
RoutThreshold10(e, u) ==
    IF variant = "1D" THEN 3 * HP(100) ELSE 3 * get_type(state[e].units[u]).max_hp
RoutedEvents(es, u) == {i \in Kinds(es, {"Routed"}) : es[i].data.unit_id = u}

\* C27: in both engines a routed unit has hp below 0.3 of its max hp; the
\* routed flag is never cleared; it is set only by a step, after the step's
\* combat events, for a unit whose hp is then below 0.3 of its max hp, together
\* with exactly one Routed event for the unit; and a step emits no Routed
\* event for any other unit, in particular none for one already routed.
C27_RoutedState ==
    \A e \in Engines : \A u \in UnitsOf(e) :
        state[e].units[u].routed => 10 * state[e].units[u].hp < RoutThreshold10(e, u)
C27_RoutedStep ==
    \A e \in Engines : \A u \in UnitsOf(e) :
        /\ state[e].units[u].routed => state'[e].units[u].routed
        /\ IF state'[e].units[u].routed /\ ~state[e].units[u].routed
           THEN /\ Stepped(e)
                /\ 10 * state'[e].units[u].hp < RoutThreshold10(e, u)
                /\ Cardinality(RoutedEvents(evts'[e], u)) = 1
                /\ \A i \in RoutedEvents(evts'[e], u) :
                      \A j \in Kinds(evts'[e], CombatKinds) : j < i
           ELSE Stepped(e) => RoutedEvents(evts'[e], u) = {}
C27_MoraleThreshold == [](C27_RoutedState) /\ [][C27_RoutedStep]_vars
\* A step of the typed engine routed one unit, which is below 30% of its max
\* hp, and left alone a unit that was hit in that step but is above 30%.
C27_Witness ==
    \E e \in Engines :
        /\ Typed(e)
        /\ \E u \in UnitsOf(e) :
              /\ state[e].units[u].routed
              /\ RoutedEvents(evts[e], u) # {}
        /\ \E i \in Kinds(evts[e], {"Damage"}) :
              /\ 10 * evts[e][i].data.hp >= RoutThreshold10(e, evts[e][i].data.target)
              /\ ~state[e].units[evts[e][i].data.target].routed

\* C28: after every step of the typed-unit engine each unit's spotted_by is
\* exactly the set of units of the other side that were not routed when the
\* step began and whose distance to it, at the positions after the step's
\* movement, is at most their sensor range times its visibility; the set is
\* already that at the targeting phase, and it holds no own id, no same-side
\* id and nothing carried over from the step before.
C28_SpottingRecomputed ==
    [][\A e \in Engines : (Typed(e) /\ Stepped(e)) =>
          \E U \in {AtTargeting(e).state.units} :
              \A u \in UnitsOf(e) :
                  /\ state'[e].units[u].spotted_by
                        = {d \in UnitsOf(e) :
                              /\ state[e].units[d].side # state[e].units[u].side
                              /\ ~state[e].units[d].routed
                              /\ Detects(state'[e].units[d], state'[e].units[u])}
                  /\ U[u].spotted_by = state'[e].units[u].spotted_by
                  /\ U[u].pos = state'[e].units[u].pos
                  /\ u \notin state'[e].units[u].spotted_by]_vars
\* One-way spotting: after a step a unit is spotted by an opposing unit that
\* it does not spot itself, neither of them routed.
C28_Witness ==
    \E e \in Engines :
        /\ Typed(e) /\ nsteps[e] > 0
        /\ \E a, b \in UnitsOf(e) :
              /\ a \in state[e].units[b].spotted_by
              /\ b \notin state[e].units[a].spotted_by
              /\ ~state[e].units[a].routed /\ ~state[e].units[b].routed

EventKinds == {"OrderAccepted", "Contact", "ShotFired", "Damage", "Destroyed", "Routed"}

\* C29: every event returned by step(), in either engine, has one of the six
\* kinds OrderAccepted, Contact, ShotFired, Damage, Destroyed, Routed, and
\* Contact events occur only in the 1D engine; so no event reports that a
\* unit changed position or that detection was recomputed.
C29_EventKinds ==
    \A e \in Engines :
        /\ Kinds(evts[e], EventKinds) = 1..Len(evts[e])
        /\ variant # "1D" => Kinds(evts[e], {"Contact"}) = {}

IsSteering(ev) == ev.kind = "OrderAccepted" /\ ev.data.kind = "attack"
IsNotSteering(ev) == ~IsSteering(ev)

\* C30: two typed-unit engines with the same initial State and seed, stepped
\* alike and given the same move and defend orders but different attack
\* orders, agree after every call on every field of every unit except
\* target_id, on the simulation time and the generator, and on every event
\* of the step except the OrderAccepted events of the attack orders.
C30_AttackOrdersDoNotSteer ==
    (Engines = {1, 2} /\ variant = "2D" /\ turn = 1) =>
        /\ \A u \in UnitsOf(1) :
              state[1].units[u]
                  = [state[2].units[u] EXCEPT !.target_id = state[1].units[u].target_id]
        /\ state[1].ts_ms = state[2].ts_ms
        /\ _rng[1] = _rng[2]
        /\ targets[1] = targets[2]
        /\ SelectSeq(evts[1], IsNotSteering) = SelectSeq(evts[2], IsNotSteering)
\* After a step in which the recon vehicle fired at the first tank, it is
\* under an accepted order to attack the second tank in one run and under no
\* attack order in the other.
C30_Witness ==
    /\ Engines = {1, 2} /\ variant = "2D" /\ turn = 1 /\ call.op = "step"
    /\ state[1].battle_id = "crossfire"
    /\ state[1].units["R_RECON_1"].target_id = "B_MBT_2"
    /\ state[2].units["R_RECON_1"].target_id = NoId
    /\ state[2].units["B_MBT_2"].target_id = "R_RECON_1"
    /\ \E i \in ShotsBy(evts[1], "R_RECON_1") : evts[1][i].data.target = "B_MBT_1"
    /\ \E i \in ShotsBy(evts[2], "R_RECON_1") : evts[2][i].data.target = "B_MBT_1"
    /\ \E i \in 1..Len(evts[1]) : IsSteering(evts[1][i])

\* The distance of unit record u to the point T.
Remaining(u, T) ==
    IF variant = "1D" THEN Abs(T[1] - u.pos_m) ELSE distance_2d(u.pos, T)
\* Unit u of instance e has a movement intent and stands at it: exactly in the
\* 1D engine, less than 0.1 (2 distance units) away in the typed engine.
Arrived(e, u) ==
    /\ u \in UnitsOf(e) /\ IntentOf(state[e].units[u]) # None
    /\ IF variant = "1D" THEN Remaining(state[e].units[u], IntentOf(state[e].units[u])) = 0
       ELSE Remaining(state[e].units[u], IntentOf(state[e].units[u])) < 2
\* Every unit of instance e that has a movement intent has arrived or is routed.
AllArrived(e) ==
    \A u \in UnitsOf(e) :
        IntentOf(state[e].units[u]) # None =>
            Arrived(e, u) \/ state[e].units[u].routed

\* A step moves every unrouted unit with an intent by stp = min(speed x dt,
\* remaining distance) straight toward the intent; with Exact, also a unit of
\* the typed engine that is less than 0.1 away, which otherwise stays put.
MovesByMin(e, Exact) ==
    \A u \in UnitsOf(e) :
        (IntentOf(state'[e].units[u]) # None /\ ~state[e].units[u].routed
            /\ SpeedOf(state[e].units[u]) > 0) =>
            LET T == IntentOf(state'[e].units[u])
                d == Remaining(state[e].units[u], T)
                stp == Min((SpeedOf(state[e].units[u]) * call'.arg) \div 1000, d)
            IN /\ Remaining(state'[e].units[u], T) <= d
               /\ IF variant = "1D" THEN Advanced1D(e, u, T[1], d, stp)
                  ELSE IF d >= 2 \/ Exact THEN Advanced2D(e, u, T, d, stp)
                  ELSE state'[e].units[u].pos = state[e].units[u].pos

\* C31: each step moves an unrouted unit with a movement intent and positive
\* speed by exactly min(speed x dt, remaining distance) straight toward the
\* target, never away from it or past it, except that a unit of the typed
\* engine less than 0.1 from the target does not move; a unit that has arrived
\* (within 0.1 in the typed engine) is not moved by any later step; and with
\* no further orders, after finitely many steps every unit with an intent has
\* arrived or is routed, and stays so.
C31_StepTowardTarget == \A e \in Engines : Stepped(e) => MovesByMin(e, FALSE)
C31_StaysAtTarget ==
    \A e \in Engines : \A u \in UnitsOf(e) :
        (Stepped(e) /\ Arrived(e, u)) =>
            /\ PosOf(state'[e].units[u]) = PosOf(state[e].units[u])
            /\ Arrived(e, u)'
C31_MovementConverges ==
    /\ [][C31_StepTowardTarget]_vars
    /\ [][C31_StaysAtTarget]_vars
    /\ <>[](\A e \in Engines : AllArrived(e))

\* The claim as stated: every such step reduces the distance by exactly
\* min(speed x dt, remaining distance), however small the remaining distance.
C31_ReducesByMinAlways ==
    [][\A e \in Engines : Stepped(e) => MovesByMin(e, TRUE)]_vars

\* B1 of the 1D engine, ordered 3.5 m ahead, has arrived there after three
\* steps of 1 m and one of 0.5 m, unrouted.
C31_Witness ==
    /\ variant = "1D" /\ state[1].battle_id = "test" /\ nsteps[1] = 4
    /\ state[1].ts_ms = 2000
    /\ state[1].units["B1"].intent_target_pos_m = <<M(1000) + 70>>
    /\ state[1].units["B1"].pos_m = M(1000) + 70
    /\ ~state[1].units["B1"].routed

====
